---- MODULE Spec2Model ----
(***************************************************************************)
(* A model of mojentic-mcp: the multi-transport client (client.py), the    *)
(* two transports (transports.py) and the JSON-RPC dispatch table (rpc.py). *)
(* Each component has its own specification over its own group of          *)
(* variables; the other groups stay at their initial values.               *)
(***************************************************************************)
EXTENDS Integers, Sequences, FiniteSets, TLC

\* ------------------------------------------------------------------ bounds

\* Length of the longest transport list handed to McpClient.
NumTransports == 2
\* Total number of tool descriptors the transports return during one discovery.
MaxDiscovered == 2
\* Threads calling send_request on one StdioTransport instance.
NumThreads == 2
\* Child processes one StdioTransport instance starts (initialize() calls that succeed).
MaxSpawns == 1
\* Child processes one StdioTransport starts when only its lifecycle is followed.
MaxGenerations == 2
\* Length of the longest tool list handed to JsonRpcHandler.
MaxTools == 2
\* The transport generates identifiers while its counter is at most MaxId.
MaxId == 2
\* Lines one run of StdioMcpServer reads before its input ends.
MaxLines == 2

\* ---------------------------------------------------------------- variables

VARIABLES
    \* McpClient (client.py)
    transports,            \* self._transports: the transports are 1..transports
    phase,                 \* position of the constructor / life of the client
    idx,                   \* transport_idx of the discovery loop
    step,                  \* "init": before transport.initialize(); "list": before tools/list
    all_discovered,        \* all_discovered_tools_with_transport
    tool_to_transport_map, \* self._tool_to_transport_map
    tool_schemas,          \* self._tool_schemas
    initCalls,             \* per transport: number of initialize() calls received
    listSends,             \* per transport: number of tools/list requests received
    callSends,             \* per transport: tools/call requests received during construction
    discovery,             \* per transport: how its discovery ended
    advertised,            \* per transport: the tools list its tools/list result carried
    lastCall,              \* the last operation on the client: what was called and how it ended
    shutdownCalls          \* the transports McpClient.shutdown has called shutdown() on

VARIABLES
    \* HttpTransport and StdioTransport (transports.py): one transport instance
    variant,               \* "http" or "stdio": the class of the instance
    lifecycle,             \* Uninitialized, Initialized or ShutDown: the last lifecycle call done
    http_client,           \* HttpTransport._client is not None
    httpCall,              \* the last HttpTransport.send_request: what it met and how it ended
    process,               \* StdioTransport._process: 0 (None) or the pid of its Popen object
    spawned,               \* number of child processes started so far (pids are 1..spawned)
    alive,                 \* pids of the started children that are running
    returncode,            \* return code of the current child once it has exited
    stdin_closed,          \* _process.stdin.closed
    stdout_closed,         \* _process.stdout.closed
    stderr_closed,         \* _process.stderr.closed
    pipe_in,               \* lines written to the child's stdin that it has not read yet
    pipe_out,              \* number of lines the child wrote to its stdout, not read yet
    answered,              \* the requests those lines answer, oldest first
    request_id_counter,    \* StdioTransport._request_id_counter
    lock,                  \* StdioTransport._lock: 0 (free) or the thread holding it
    thr,                   \* per calling thread: its position in send_request and its request
    adm,                   \* the thread calling initialize() and shutdown(): position in shutdown
    lastSend,              \* the StdioTransport.send_request that just ended: what it met, its end
    generated,             \* the identifiers the transport generated, in order of generation
    teardown               \* what the running shutdown() or terminate_process() did so far, in order

VARIABLES
    \* JsonRpcHandler (rpc.py)
    rpc_tools,             \* self.tools: the registered tools, in order
    should_exit,           \* self.should_exit
    request,               \* the request of the last handle_request
    response,              \* the envelope it returned
    raised,                \* whether handle_request raised instead of returning
    invoked                \* positions in rpc_tools of the tools it ran (none or one)

VARIABLES
    \* StdioMcpServer (mcp_stdio.py) and HttpMcpServer (mcp_http.py)
    server_should_exit,    \* StdioMcpServer.should_exit
    loop,                  \* StdioMcpServer.run: "new" (not called), "running", "ended"
    lines_read,            \* number of lines run() read from standard input
    lines_written,         \* number of lines run() wrote to standard output
    lines_logged,          \* number of lines run() wrote to standard error
    last_line,             \* what the last readline() of run() returned
    last_written,          \* the last line run() wrote to standard output
    http_reply             \* the Response of the last HttpMcpServer.handle_jsonrpc

clientVars == <<transports, phase, idx, step, all_discovered, tool_to_transport_map,
                tool_schemas, initCalls, listSends, callSends, discovery, advertised,
                lastCall, shutdownCalls>>

transportVars == <<variant, lifecycle, http_client, httpCall, process, spawned, alive,
                   returncode, stdin_closed, stdout_closed, stderr_closed, pipe_in,
                   pipe_out, answered, request_id_counter, lock, thr, adm, lastSend,
                   generated, teardown>>

serverVars == <<server_should_exit, loop, lines_read, lines_written, lines_logged,
                last_line, last_written, http_reply>>

rpcVars == <<rpc_tools, should_exit, request, response, raised, invoked, serverVars>>

vars == <<clientVars, transportVars, rpcVars>>

\* ------------------------------------------------------- values of no call

\* The calling threads of one StdioTransport instance.
SendThreads == 1..NumThreads

\* A thread outside send_request.
IdleThread == [pc |-> "idle", given |-> 0, id |-> 0, ready |-> FALSE]

NoSend == [ready |-> FALSE, wrote |-> 0, line |-> "none", exc |-> "none",
           outcome |-> "none", rc |-> "none", response |-> "none", text |-> <<>>]

NoHttpCall == [ready |-> FALSE, posts |-> 0, met |-> "none", outcome |-> "none"]

IdleAdmin == [pc |-> "idle", id |-> 0]

\* No transport instance exists (the specification is about another component).
TransportIdle ==
    /\ variant = "none"
    /\ lifecycle = "Uninitialized"
    /\ http_client = FALSE
    /\ httpCall = NoHttpCall
    /\ process = 0
    /\ spawned = 0
    /\ alive = {}
    /\ returncode = "none"
    /\ stdin_closed = FALSE
    /\ stdout_closed = FALSE
    /\ stderr_closed = FALSE
    /\ pipe_in = <<>>
    /\ pipe_out = 0
    /\ answered = <<>>
    /\ request_id_counter = 1
    /\ lock = 0
    /\ thr = [t \in SendThreads |-> IdleThread]
    /\ adm = IdleAdmin
    /\ lastSend = NoSend
    /\ generated = <<>>
    /\ teardown = <<>>

NoRequest == [id |-> "none", method |-> "none", name |-> "none", arguments |-> "none",
              cursor |-> "none"]
NoResult == [kind |-> "none", items |-> <<>>, nextCursor |-> "absent"]
NoResponse == [jsonrpc |-> "none", id |-> "none", members |-> {}, code |-> 0,
               message |-> <<>>, result |-> NoResult]

NoReply == [body |-> "none", status |-> 0, envelope |-> NoResponse]

\* No server runs: mcp_stdio.py:15-22 has built the object at most.
ServerIdle ==
    /\ server_should_exit = FALSE
    /\ loop = "new"
    /\ lines_read = 0
    /\ lines_written = 0
    /\ lines_logged = 0
    /\ last_line = "none"
    /\ last_written = "none"
    /\ http_reply = NoReply

\* No handler exists.
RpcIdle ==
    /\ ServerIdle
    /\ rpc_tools = <<>>
    /\ should_exit = FALSE
    /\ request = NoRequest
    /\ response = NoResponse
    /\ raised = FALSE
    /\ invoked = <<>>

\* ------------------------------------------------------------ McpClient data

Transports == 1..NumTransports

\* Tool names the servers use, and one name no server advertises.
ToolNames == {"a", "shared"}
CallNames == ToolNames \cup {"zz"}

\* The shapes of one element of a tools/list result. name is the value under
\* the key "name": a string (isStr), or a non-string truthy value such as 7.
DescKinds ==
    { [isDict |-> TRUE,  hasName |-> TRUE,  isStr |-> TRUE,  name |-> "a"],
      [isDict |-> TRUE,  hasName |-> TRUE,  isStr |-> TRUE,  name |-> "shared"],
      [isDict |-> TRUE,  hasName |-> TRUE,  isStr |-> TRUE,  name |-> ""],
      [isDict |-> TRUE,  hasName |-> TRUE,  isStr |-> FALSE, name |-> "7"],
      [isDict |-> TRUE,  hasName |-> FALSE, isStr |-> FALSE, name |-> ""],
      [isDict |-> FALSE, hasName |-> FALSE, isStr |-> FALSE, name |-> ""] }

\* The descriptor transport t returns at position i: its description names
\* the transport and the position ("Shared tool from T1").
Descriptor(t, i, k) ==
    [isDict |-> k.isDict, hasName |-> k.hasName, isStr |-> k.isStr, name |-> k.name,
     description |-> <<t, i>>]

ToolLists(t, n) ==
    UNION { { [i \in 1..m |-> Descriptor(t, i, ks[i])] : ks \in [1..m -> DescKinds] }
            : m \in 0..n }

\* What transport.initialize() and transport.send_request() can raise.
Raised == {"McpTransportError", "JsonRpcError", "Exception"}

\* A tools/list response that is not {"result": {"tools": [...]}}.
MalformedListResponses == {"no_result", "result_not_dict", "no_tools", "tools_not_list"}

\* No operation has been called on the client yet.
NoMessage == [form |-> "none", tool |-> "", tools |-> {}]

NoCall == [op |-> "none", name |-> "", via |-> {}, outcome |-> "none", got |-> "none",
           message |-> NoMessage, payload |-> "none", same |-> FALSE,
           calls |-> <<>>, raised |-> {}]

\* client.py:67-70: the except clauses of the discovery loop
\* (DiscoveryCatchesMutant: the loop without its "except Exception" clause).
DiscoveryCatchesMutant(e) == e \in {"McpTransportError", "JsonRpcError"}
DiscoveryCatches(e) == e \in {"McpTransportError", "JsonRpcError"} \/ e = "Exception"

\* client.py:59: a descriptor is kept when it is a dict with a "name" key.
KeepsDescriptor(d) == d.isDict /\ d.hasName

\* client.py:75: the name is truthy, a string, and not registered yet
\* (RegistersMutant: the test without "not in unique_tool_names").
RegistersMutant(d, seen) == d.name # "" /\ d.isStr
Registers(d, seen) == d.name # "" /\ d.isStr /\ d.name \notin seen

\* client.py:77: self._tool_to_transport_map[tool_name] = transport
\* (AddRouteMutant: the assignment left out).
AddRouteMutant(map, d, t) == map
AddRoute(map, d, t) == (d.name :> t) @@ map

\* client.py:78: self._tool_schemas[tool_name] = tool_desc
\* (AddSchemaMutant: the assignment left out).
AddSchemaMutant(schemas, d) == schemas
AddSchema(schemas, d) == (d.name :> d) @@ schemas

\* client.py:72-79: the registration loop over all_discovered, from entry i.
RECURSIVE RegisterFrom(_, _, _, _, _)
RegisterFrom(list, i, seen, map, schemas) ==
    IF i > Len(list) THEN [map |-> map, schemas |-> schemas]
    ELSE LET d == list[i].desc
             t == list[i].transport
         IN IF Registers(d, seen)
            THEN RegisterFrom(list, i + 1, seen \cup {d.name},
                              AddRoute(map, d, t), AddSchema(schemas, d))
            ELSE RegisterFrom(list, i + 1, seen, map, schemas)

\* client.py:58-62: the descriptors of one tools list that are appended.
Appended(tools, t) ==
    LET keep == SelectSeq(tools, KeepsDescriptor)
    IN [i \in 1..Len(keep) |-> [desc |-> keep[i], transport |-> t]]

Returned == LET RECURSIVE Sum(_)
                Sum(t) == IF t = 0 THEN 0 ELSE Len(advertised[t]) + Sum(t - 1)
            IN Sum(NumTransports)

\* ------------------------------------------------------------ McpClient init

ClientIdle ==
    /\ transports = 0
    /\ phase = "off"
    /\ idx = 0
    /\ step = "init"
    /\ all_discovered = <<>>
    /\ tool_to_transport_map = <<>>
    /\ tool_schemas = <<>>
    /\ initCalls = [t \in Transports |-> 0]
    /\ listSends = [t \in Transports |-> 0]
    /\ callSends = [t \in Transports |-> 0]
    /\ discovery = [t \in Transports |-> "pending"]
    /\ advertised = [t \in Transports |-> <<>>]
    /\ lastCall = NoCall
    /\ shutdownCalls = {}

\* McpClient(transports) is about to run, for a list of 0..NumTransports transports.
ClientInit ==
    /\ transports \in 0..NumTransports
    /\ phase = "new"
    /\ idx = 0
    /\ step = "init"
    /\ all_discovered = <<>>
    /\ tool_to_transport_map = <<>>
    /\ tool_schemas = <<>>
    /\ initCalls = [t \in Transports |-> 0]
    /\ listSends = [t \in Transports |-> 0]
    /\ callSends = [t \in Transports |-> 0]
    /\ discovery = [t \in Transports |-> "pending"]
    /\ advertised = [t \in Transports |-> <<>>]
    /\ lastCall = NoCall
    /\ shutdownCalls = {}

\* --------------------------------------------------------- McpClient actions

\* client.py:21: "if not transports" (NoTransportsMutant: the test left out).
NoTransportsMutant == FALSE
NoTransports == transports = 0

\* client.py:20-29,38: __init__ up to the first pass of the discovery loop;
\* a loop over no transport goes on to the registration.
Construct ==
    /\ phase = "new"
    /\ IF NoTransports
       THEN /\ phase' = "ValueError"
            /\ idx' = idx
       ELSE /\ phase' = (IF transports >= 1 THEN "discover" ELSE "register")
            /\ idx' = (IF transports >= 1 THEN 1 ELSE idx)
    /\ step' = "init"
    /\ UNCHANGED <<transports, all_discovered, tool_to_transport_map, tool_schemas,
                   initCalls, listSends, callSends, discovery, advertised, lastCall,
                   shutdownCalls,
                   transportVars, rpcVars>>

\* The loop moves to the next transport, or leaves the loop (client.py:38)
\* (NextTransportMutant: a loop that stays on its transport).
NextTransportMutant == idx
NextTransport == IF idx < transports THEN idx + 1 ELSE idx
AfterTransport == IF idx < transports THEN "discover" ELSE "register"

\* client.py:41: transport.initialize() returns normally.
DiscoverInitializeOk ==
    /\ phase = "discover" /\ step = "init"
    /\ initCalls' = [initCalls EXCEPT ![idx] = @ + 1]
    /\ step' = "list"
    /\ UNCHANGED <<transports, phase, idx, all_discovered, tool_to_transport_map,
                   tool_schemas, listSends, callSends, discovery, advertised, lastCall,
                   shutdownCalls,
                   transportVars, rpcVars>>

\* client.py:41,67-70: transport.initialize() raises.
DiscoverInitializeRaises ==
    /\ phase = "discover" /\ step = "init"
    /\ \E e \in Raised :
         /\ initCalls' = [initCalls EXCEPT ![idx] = @ + 1]
         /\ discovery' = [discovery EXCEPT ![idx] = "init_failed"]
         /\ IF DiscoveryCatches(e)
            THEN /\ phase' = AfterTransport
                 /\ idx' = NextTransport
            ELSE /\ phase' = "aborted"
                 /\ idx' = idx
    /\ step' = "init"
    /\ UNCHANGED <<transports, all_discovered, tool_to_transport_map, tool_schemas,
                   listSends, callSends, advertised, lastCall, shutdownCalls,
                   transportVars, rpcVars>>

\* client.py:51-52,67-70: the tools/list request raises.
DiscoverListRaises ==
    /\ phase = "discover" /\ step = "list"
    /\ \E e \in Raised :
         /\ listSends' = [listSends EXCEPT ![idx] = @ + 1]
         /\ discovery' = [discovery EXCEPT ![idx] = "list_failed"]
         /\ IF DiscoveryCatches(e)
            THEN /\ phase' = AfterTransport
                 /\ idx' = NextTransport
            ELSE /\ phase' = "aborted"
                 /\ idx' = idx
    /\ step' = "init"
    /\ UNCHANGED <<transports, all_discovered, tool_to_transport_map, tool_schemas,
                   initCalls, callSends, advertised, lastCall, shutdownCalls,
                   transportVars, rpcVars>>

\* client.py:54,63-66: the response has no result dict with a list under "tools".
DiscoverListMalformed ==
    /\ phase = "discover" /\ step = "list"
    /\ \E r \in MalformedListResponses :
         /\ listSends' = [listSends EXCEPT ![idx] = @ + 1]
         /\ discovery' = [discovery EXCEPT ![idx] = "malformed"]
    /\ phase' = AfterTransport
    /\ idx' = NextTransport
    /\ step' = "init"
    /\ UNCHANGED <<transports, all_discovered, tool_to_transport_map, tool_schemas,
                   initCalls, callSends, advertised, lastCall, shutdownCalls,
                   transportVars, rpcVars>>

\* client.py:54-62: the response carries a tools list; its well-formed
\* descriptors are appended with the transport.
DiscoverListOk ==
    /\ phase = "discover" /\ step = "list"
    /\ \E tools \in ToolLists(idx, MaxDiscovered - Returned) :
         /\ listSends' = [listSends EXCEPT ![idx] = @ + 1]
         /\ discovery' = [discovery EXCEPT ![idx] = "ok"]
         /\ advertised' = [advertised EXCEPT ![idx] = tools]
         /\ all_discovered' = all_discovered \o Appended(tools, idx)
    /\ phase' = AfterTransport
    /\ idx' = NextTransport
    /\ step' = "init"
    /\ UNCHANGED <<transports, tool_to_transport_map, tool_schemas, initCalls,
                   callSends, lastCall, shutdownCalls,
                   transportVars, rpcVars>>

\* client.py:72-81: the registration loop; the constructor returns.
Register ==
    /\ phase = "register"
    /\ LET r == RegisterFrom(all_discovered, 1, {}, tool_to_transport_map, tool_schemas)
       IN /\ tool_to_transport_map' = r.map
          /\ tool_schemas' = r.schemas
    /\ phase' = "ready"
    /\ all_discovered' = <<>>
    /\ UNCHANGED <<transports, idx, step, initCalls, listSends, callSends, discovery,
                   advertised, lastCall, shutdownCalls,
                   transportVars, rpcVars>>

\* The shapes of a result payload whose "isError" is truthy, by what is under
\* its "content" key: a list whose first item is a dict with a non-empty
\* "text", a list whose first item is a dict without one, nothing or an empty
\* list, a value that is not a list, a list whose first item is a string.
ErrorPayloads == {"text", "no_text", "no_content", "content_not_list", "item_not_object"}

\* What transport.send_request(tools/call) does: raises, or returns a response
\* (a result dict without isError, an isError payload, or a response without a
\* result dict).
CallResponses == Raised \cup {"result", "malformed"} \cup ErrorPayloads

\* client.py:139-142: error_content[0].get("text") can be evaluated: the
\* conjunction stops before it, or error_content[0] is a dict.
FirstItemReadable(r) == r # "item_not_object"

\* client.py:155-157: the errors of send_request that the first except clause
\* re-raises with a bare raise (ReraisedMutant: the clause without JsonRpcError).
ReraisedMutant(r) == r = "McpTransportError"
Reraised(r) == r \in {"McpTransportError", "JsonRpcError"}

\* client.py:135-162: the outcome of call_tool for what send_request did.
CallOutcome(r) ==
    CASE r = "result"       -> "returned"
      [] r \in ErrorPayloads -> IF FirstItemReadable(r) THEN "McpToolExecutionError"
                                                       ELSE "McpClientError"
      [] r = "malformed"    -> "McpClientError"
      [] Reraised(r)        -> r
      [] OTHER              -> "McpClientError"

\* client.py:140-153,162: the message of the error call_tool raises. form is
\* the text the message is made of; tool is the tool name put into it.
CallMessage(name, r) ==
    CASE r = "result"  -> NoMessage
      [] r = "text"    -> [form |-> "server_text", tool |-> "", tools |-> {}]
      [] r \in ErrorPayloads \ {"text"} ->
           IF FirstItemReadable(r)
           THEN [form |-> "reported_an_error", tool |-> name, tools |-> {}]
           ELSE [form |-> "unexpected", tool |-> name, tools |-> {}]
      [] r = "malformed" -> [form |-> "malformed", tool |-> name, tools |-> {}]
      [] Reraised(r)     -> [form |-> "as_raised", tool |-> "", tools |-> {}]
      [] OTHER           -> [form |-> "unexpected", tool |-> name, tools |-> {}]

\* client.py:144: the payload the raised McpToolExecutionError carries.
CallPayload(r) ==
    IF r \in ErrorPayloads /\ FirstItemReadable(r) THEN r ELSE "none"

\* client.py:119-121: call_tool of a name that is not registered
\* (NotFoundMutant: the test made after the request went to the first transport).
NotFoundMutant(name) ==
    [op |-> "call_tool", name |-> name, via |-> {1}, outcome |-> "ValueError",
     got |-> "none", payload |-> "none", same |-> FALSE, calls |-> <<>>, raised |-> {},
     message |-> [form |-> "not_found", tool |-> name,
                  tools |-> DOMAIN tool_to_transport_map]]
NotFound(name) ==
    [op |-> "call_tool", name |-> name, via |-> {}, outcome |-> "ValueError",
     got |-> "none", payload |-> "none", same |-> FALSE, calls |-> <<>>, raised |-> {},
     message |-> [form |-> "not_found", tool |-> name,
                  tools |-> DOMAIN tool_to_transport_map]]

\* client.py:123: the transport a call of a registered name goes through
\* (RouteMutant: always the first transport of the list).
RouteMutant(name) == 1
Route(name) == tool_to_transport_map[name]

\* client.py:123-162: call_tool of a registered name, send_request doing r.
\* same: the error that leaves call_tool is the object send_request raised.
Called(name, r) ==
    [op |-> "call_tool", name |-> name, via |-> {Route(name)},
     outcome |-> CallOutcome(r), got |-> r, message |-> CallMessage(name, r),
     payload |-> CallPayload(r), same |-> (Reraised(r) /\ CallOutcome(r) = r),
     calls |-> <<>>, raised |-> {}]

\* No operation of the client is under way.
AtRest == lastCall = NoCall

\* client.py:102-162: call_tool(tool_name, **kwargs).
CallTool ==
    /\ phase = "ready" /\ AtRest
    /\ \E name \in CallNames :
         IF name \notin DOMAIN tool_to_transport_map
         THEN lastCall' = NotFound(name)
         ELSE \E r \in CallResponses : lastCall' = Called(name, r)
    /\ UNCHANGED <<transports, phase, idx, step, all_discovered, tool_to_transport_map,
                   tool_schemas, initCalls, listSends, callSends, discovery, advertised,
                   shutdownCalls, transportVars, rpcVars>>

\* The values of a dict as a list (the order of the list is not modelled).
RECURSIVE Values(_)
Values(f) ==
    IF DOMAIN f = {} THEN <<>>
    ELSE LET k == CHOOSE x \in DOMAIN f : TRUE
         IN <<f[k]>> \o Values([x \in DOMAIN f \ {k} |-> f[x]])

\* client.py:83-89: what list_tools() returns.
list_tools == Values(tool_schemas)

\* client.py:83-89: list_tools().
ListTools ==
    /\ phase = "ready" /\ AtRest
    /\ lastCall' = [NoCall EXCEPT !.op = "list_tools", !.outcome = "returned"]
    /\ UNCHANGED <<transports, phase, idx, step, all_discovered, tool_to_transport_map,
                   tool_schemas, initCalls, listSends, callSends, discovery, advertised,
                   shutdownCalls, transportVars, rpcVars>>

\* client.py:91-100: get_tool_schema(tool_name): the descriptor, or None.
GetToolSchema ==
    /\ phase = "ready" /\ AtRest
    /\ \E name \in CallNames :
         lastCall' = [NoCall EXCEPT !.op = "get_tool_schema", !.name = name,
                        !.outcome = IF name \in DOMAIN tool_schemas
                                    THEN "returned" ELSE "returned_None"]
    /\ UNCHANGED <<transports, phase, idx, step, all_discovered, tool_to_transport_map,
                   tool_schemas, initCalls, listSends, callSends, discovery, advertised,
                   shutdownCalls, transportVars, rpcVars>>

\* client.py:190: __getattr__ makes a caller for the names of the routing map
\* (HasAttributeMutant: a caller for every name).
HasAttributeMutant(name) == TRUE
HasAttribute(name) == name \in DOMAIN tool_to_transport_map

\* client.py:191-192: the function __getattr__ returns calls
\* call_tool(name, **kwargs) and returns what it returns.
tool_caller(name, r) ==
    IF name \notin DOMAIN tool_to_transport_map THEN NotFound(name) ELSE Called(name, r)

\* client.py:204-205: the AttributeError of a name that is not in the map.
NoAttribute(name) ==
    [op |-> "tools", name |-> name, via |-> {}, outcome |-> "AttributeError",
     got |-> "none", payload |-> "none", same |-> FALSE, calls |-> <<>>, raised |-> {},
     message |-> [form |-> "no_attribute", tool |-> name,
                  tools |-> DOMAIN tool_to_transport_map]]

\* client.py:182-205: client.tools.<name>(**kwargs): __getattr__ raises
\* AttributeError for an unregistered name, and returns a function that calls
\* call_tool(name, **kwargs) otherwise, which is then called.
ToolAccess ==
    /\ phase = "ready" /\ AtRest
    /\ \E name \in CallNames :
         IF HasAttribute(name)
         THEN \E r \in CallResponses :
                lastCall' = [tool_caller(name, r) EXCEPT !.op = "tools"]
         ELSE lastCall' = NoAttribute(name)
    /\ UNCHANGED <<transports, phase, idx, step, all_discovered, tool_to_transport_map,
                   tool_schemas, initCalls, listSends, callSends, discovery, advertised,
                   shutdownCalls, transportVars, rpcVars>>

\* client.py:164-172: what shutdown() leaves in a registry map: it reads
\* self._transports only (ShutdownKeepsMutant: a shutdown that clears the map).
ShutdownKeepsMutant(map) == <<>>
ShutdownKeeps(map) == map

\* client.py:171: "except Exception" catches what transport.shutdown() raises
\* (ShutdownCatchesMutant: the call made without the try).
ShutdownCatchesMutant(e) == FALSE
ShutdownCatches(e) == e \in Raised

\* client.py:167-172: the loop of shutdown() from transport i on. raising is
\* the set of transports whose shutdown() raises; calls is the list of the
\* transports called so far.
RECURSIVE ShutdownFrom(_, _, _)
ShutdownFrom(i, raising, calls) ==
    IF i > transports THEN [calls |-> calls, outcome |-> "returned"]
    ELSE IF i \notin raising \/ ShutdownCatches("Exception")
         THEN ShutdownFrom(i + 1, raising, Append(calls, i))
         ELSE [calls |-> Append(calls, i), outcome |-> "Exception"]

\* client.py:164-172: one run of shutdown(), as op ("shutdown" or "__exit__").
ShutsDown(op) ==
    \E raising \in SUBSET (1..transports) :
        LET r == ShutdownFrom(1, raising, <<>>)
            called == { r.calls[k] : k \in DOMAIN r.calls }
        IN /\ shutdownCalls' = shutdownCalls \cup called
           /\ lastCall' = [NoCall EXCEPT !.op = op, !.via = called, !.calls = r.calls,
                                         !.raised = raising \cap called,
                                         !.outcome = r.outcome]

\* client.py:164-172: shutdown(): transport.shutdown() is called on every
\* transport of the list; what it raises is caught and logged.
Shutdown ==
    /\ phase = "ready" /\ AtRest
    /\ ShutsDown("shutdown")
    /\ tool_to_transport_map' = ShutdownKeeps(tool_to_transport_map)
    /\ tool_schemas' = ShutdownKeeps(tool_schemas)
    /\ UNCHANGED <<transports, phase, idx, step, all_discovered, initCalls, listSends,
                   callSends, discovery, advertised, transportVars, rpcVars>>

\* client.py:174-179: the with statement over the client ends: __exit__ calls
\* shutdown() (__enter__ returned the constructed client).
ExitContext ==
    /\ phase = "ready" /\ AtRest
    /\ ShutsDown("__exit__")
    /\ tool_to_transport_map' = ShutdownKeeps(tool_to_transport_map)
    /\ tool_schemas' = ShutdownKeeps(tool_schemas)
    /\ UNCHANGED <<transports, phase, idx, step, all_discovered, initCalls, listSends,
                   callSends, discovery, advertised, transportVars, rpcVars>>

\* The operation returns to its caller (or its error reaches the caller); the
\* client is used by one caller, one operation at a time.
OperationReturns ==
    /\ phase = "ready" /\ ~AtRest
    /\ lastCall' = NoCall
    /\ UNCHANGED <<transports, phase, idx, step, all_discovered, tool_to_transport_map,
                   tool_schemas, initCalls, listSends, callSends, discovery, advertised,
                   shutdownCalls, transportVars, rpcVars>>

ClientNext ==
    \/ Construct
    \/ DiscoverInitializeOk
    \/ DiscoverInitializeRaises
    \/ DiscoverListRaises
    \/ DiscoverListMalformed
    \/ DiscoverListOk
    \/ Register
    \/ CallTool
    \/ ListTools
    \/ GetToolSchema
    \/ ToolAccess
    \/ OperationReturns

InitClient == ClientInit /\ TransportIdle /\ RpcIdle

\* The client from construction on, while it is in use (shutdown() reads
\* self._transports only and touches nothing the other operations read).
SpecClient == InitClient /\ [][ClientNext]_vars

\* The client over its whole life: construction, use, shutdown() and the exit
\* of the with block, and use after them.
ClientLifeNext ==
    \/ Construct
    \/ DiscoverInitializeOk
    \/ DiscoverInitializeRaises
    \/ DiscoverListRaises
    \/ DiscoverListMalformed
    \/ DiscoverListOk
    \/ Register
    \/ CallTool
    \/ ListTools
    \/ GetToolSchema
    \/ ToolAccess
    \/ Shutdown
    \/ ExitContext
    \/ OperationReturns

InitClientLife == ClientInit /\ TransportIdle /\ RpcIdle

SpecClientLife == InitClientLife /\ [][ClientLifeNext]_vars

\* ------------------------------------------------------- McpClient: claims

\* Transport t's tools/list result advertised name n: it succeeded and its tools
\* list holds a dict whose "name" is the non-empty string n.
Advertises(t, n) ==
    /\ discovery[t] = "ok"
    /\ \E i \in DOMAIN advertised[t] :
         LET d == advertised[t][i]
         IN d.isDict /\ d.hasName /\ d.isStr /\ d.name = n /\ n # ""

\* The first descriptor with name n in the tools list transport t returned.
FirstDescriptor(t, n) ==
    LET at == { i \in DOMAIN advertised[t] :
                  LET d == advertised[t][i]
                  IN d.isDict /\ d.hasName /\ d.isStr /\ d.name = n }
    IN advertised[t][CHOOSE i \in at : \A j \in at : i <= j]

\* C1: after construction every registered name is mapped to the first
\* transport, in list order, whose tools/list result advertised it, and the
\* stored descriptor is the one that transport returned for the name; a later
\* transport advertising the name overwrites neither.
C1_FirstWins ==
    phase = "ready" =>
        \A n \in DOMAIN tool_to_transport_map :
            LET t == tool_to_transport_map[n]
            IN /\ t \in 1..transports
               /\ Advertises(t, n)
               /\ \A u \in 1..(t - 1) : ~Advertises(u, n)
               /\ n \in DOMAIN tool_schemas
               /\ tool_schemas[n] = FirstDescriptor(t, n)
               /\ tool_schemas[n].description[1] = t

\* Two transports advertised the same name and the client is constructed.
C1_Witness ==
    /\ phase = "ready"
    /\ \E n \in ToolNames : \E t, u \in 1..transports :
         /\ t < u /\ Advertises(t, n) /\ Advertises(u, n)
         /\ tool_to_transport_map[n] = t

\* The last operation was a call_tool (directly or through client.tools) that
\* got past the test of the name.
SentCall ==
    /\ lastCall.op \in {"call_tool", "tools"}
    /\ lastCall.outcome \notin {"ValueError", "AttributeError"}

\* C2: a call_tool of a registered name sends its tools/call through the
\* transport recorded for the name and through no other; for a name several
\* transports advertised, that is the first of them in the list, on every call.
C2_Routing ==
    (phase = "ready" /\ SentCall) =>
        /\ lastCall.name \in DOMAIN tool_to_transport_map
        /\ lastCall.via = {tool_to_transport_map[lastCall.name]}
        /\ \A t \in lastCall.via :
             /\ Advertises(t, lastCall.name)
             /\ \A u \in 1..(t - 1) : ~Advertises(u, lastCall.name)

\* A call of a name that two transports advertised went through the first,
\* although the second advertised it too.
C2_Witness ==
    /\ phase = "ready"
    /\ lastCall.op = "call_tool"
    /\ lastCall.outcome = "returned"
    /\ \E t, u \in 1..transports :
         /\ t < u
         /\ Advertises(t, lastCall.name) /\ Advertises(u, lastCall.name)
         /\ lastCall.via = {t}

FailedDiscovery == {"init_failed", "list_failed", "malformed"}

\* C7: when initialize() or tools/list of some transports raises during
\* construction, construction is not aborted, a failed transport contributes
\* no tool, every transport is still initialized and (if that succeeded)
\* queried once, and the tools of the working transports are registered and
\* callable.
C7_PartialFailureTolerance ==
    /\ phase # "aborted"
    /\ phase \in {"register", "ready"} =>
         \A t \in 1..transports :
            /\ initCalls[t] = 1
            /\ discovery[t] # "pending"
            /\ listSends[t] = (IF discovery[t] = "init_failed" THEN 0 ELSE 1)
    /\ phase = "ready" =>
         /\ \A n \in DOMAIN tool_to_transport_map :
              discovery[tool_to_transport_map[n]] \notin FailedDiscovery
         /\ \A t \in 1..transports : \A n \in ToolNames :
              Advertises(t, n) => n \in DOMAIN tool_to_transport_map
         /\ (lastCall.op = "call_tool" /\ lastCall.name \in DOMAIN tool_to_transport_map) =>
              /\ lastCall.outcome # "ValueError"
              /\ lastCall.via # {}

\* The first transport failed, the second one's tool is registered and a call
\* of it returned.
C7_Witness ==
    /\ phase = "ready"
    /\ transports = 2
    /\ discovery[1] \in {"init_failed", "list_failed"}
    /\ discovery[2] = "ok"
    /\ lastCall.op = "call_tool"
    /\ lastCall.outcome = "returned"
    /\ tool_to_transport_map[lastCall.name] = 2

\* --------------------------------------------------------------- transports

\* The id of a request handed to send_request: 0 is None (no identifier), 2 is
\* an identifier the caller chose.
CallerIds == {0, 2}

\* What a line on the child's stdout decodes to: a response with a result and
\* the request's id, one with a result and another id, one with an "error"
\* member, text that is not JSON, JSON that is not an object.
ResponseKinds == {"result", "mismatch", "error", "garbage", "nonobject"}

\* What an HTTP POST meets: a non-2xx status, a connection failure, a body
\* that is not JSON, a body with an "error" member, a body with a result, a
\* JSON body that is a number.
HttpMeets == {"status_error", "request_error", "bad_json", "error_body", "result_body",
              "number_body"}

procVars == <<process, spawned, alive, returncode, stdin_closed, stdout_closed,
              stderr_closed>>
pipeVars == <<pipe_in, pipe_out, answered>>
httpVars == <<http_client, httpCall>>

\* A transport instance of either class, just constructed
\* (transports.py:58-61 and 103-107).
TransportInit ==
    /\ variant \in {"http", "stdio"}
    /\ lifecycle = "Uninitialized"
    /\ http_client = FALSE
    /\ httpCall = NoHttpCall
    /\ process = 0
    /\ spawned = 0
    /\ alive = {}
    /\ returncode = "none"
    /\ stdin_closed = FALSE
    /\ stdout_closed = FALSE
    /\ stderr_closed = FALSE
    /\ pipe_in = <<>>
    /\ pipe_out = 0
    /\ answered = <<>>
    /\ request_id_counter = 1
    /\ lock = 0
    /\ thr = [t \in SendThreads |-> IdleThread]
    /\ adm = IdleAdmin
    /\ lastSend = NoSend
    /\ generated = <<>>
    /\ teardown = <<>>

\* ---- HttpTransport

\* transports.py:63-65: HttpTransport.initialize.
HttpInitialize ==
    /\ variant = "http"
    /\ http_client' = TRUE
    /\ lifecycle' = "Initialized"
    /\ UNCHANGED <<variant, httpCall, procVars, pipeVars, request_id_counter, lock, thr,
                   adm, lastSend, generated, teardown, clientVars, rpcVars>>

\* transports.py:68: "if self._client".
HasClient == http_client

\* transports.py:67-71: HttpTransport.shutdown: the client is closed and
\* dropped ("closed"), or there is none and nothing is done ("noop").
HttpShutdown ==
    /\ variant = "http"
    /\ adm.pc = "idle"
    /\ IF HasClient
       THEN /\ http_client' = FALSE
            /\ lifecycle' = "ShutDown"
            /\ adm' = [adm EXCEPT !.pc = "closed"]
       ELSE /\ UNCHANGED <<http_client, lifecycle>>
            /\ adm' = [adm EXCEPT !.pc = "noop"]
    /\ UNCHANGED <<variant, httpCall, procVars, pipeVars, request_id_counter, lock, thr,
                   lastSend, generated, teardown, clientVars, rpcVars>>

\* transports.py:74: the readiness test of HttpTransport.send_request
\* (HttpReadyMutant: send_request without the test).
HttpReadyMutant == TRUE
HttpReady == http_client

\* transports.py:79-97: how send_request ends for what the POST met.
HttpOutcome(met) ==
    CASE met = "status_error"  -> "McpTransportError"
      [] met = "request_error" -> "McpTransportError"
      [] met = "bad_json"      -> "McpTransportError"
      [] met = "error_body"    -> "JsonRpcError"
      [] met = "result_body"   -> "returned"
      [] met = "number_body"   -> "TypeError"

\* transports.py:73-97: HttpTransport.send_request.
HttpSendRequest ==
    /\ variant = "http"
    /\ \E met \in HttpMeets :
         httpCall' =
            IF HttpReady
            THEN [ready |-> lifecycle = "Initialized", posts |-> 1, met |-> met,
                  outcome |-> HttpOutcome(met)]
            ELSE [ready |-> lifecycle = "Initialized", posts |-> 0, met |-> "none",
                  outcome |-> "McpTransportError"]
    /\ UNCHANGED <<variant, lifecycle, http_client, procVars, pipeVars,
                   request_id_counter, lock, thr, adm, lastSend, generated, teardown, clientVars, rpcVars>>

\* ---- StdioTransport: initialize and the child process

\* No outcome of send_request is waiting to be taken by its caller.
Delivered == lastSend = NoSend

\* transports.py:109-120: StdioTransport.initialize starts a child, the
\* instance having started fewer than max so far; a child the instance held
\* before is no longer referenced.
Spawn(max) ==
    /\ Delivered
    /\ variant = "stdio"
    /\ adm.pc = "idle"
    /\ spawned < max
    /\ spawned' = spawned + 1
    /\ process' = spawned + 1
    /\ alive' = alive \cup {spawned + 1}
    /\ returncode' = "none"
    /\ stdin_closed' = FALSE
    /\ stdout_closed' = FALSE
    /\ stderr_closed' = FALSE
    /\ pipe_in' = <<>>
    /\ pipe_out' = 0
    /\ answered' = <<>>
    /\ lifecycle' = "Initialized"
    /\ UNCHANGED <<variant, httpVars, request_id_counter, lock, thr, adm, lastSend, generated,
                   teardown, clientVars, rpcVars>>

\* transports.py:109-120: StdioTransport.initialize, among concurrent callers
\* of send_request.
StdioInitializeOk == Spawn(MaxSpawns)

\* transports.py:109-120: StdioTransport.initialize, in a sequence of
\* lifecycle calls.
StdioInitialize == Spawn(MaxGenerations)

\* transports.py:121-126: Popen raises; initialize raises McpTransportError
\* and the instance is as before.
StdioInitializeRaises ==
    /\ Delivered
    /\ variant = "stdio"
    /\ adm.pc = "idle"
    /\ UNCHANGED <<transportVars, clientVars, rpcVars>>

\* The child reads one request line and writes one response line; what the
\* line holds is drawn when it is read.
ChildAnswers ==
    /\ Delivered
    /\ process # 0
    /\ process \in alive
    /\ pipe_in # <<>>
    /\ pipe_out' = pipe_out + 1
    /\ answered' = Append(answered, Head(pipe_in))
    /\ pipe_in' = Tail(pipe_in)
    /\ UNCHANGED <<variant, lifecycle, httpVars, procVars, request_id_counter, lock, thr,
                   adm, lastSend, generated, teardown, clientVars, rpcVars>>

\* A child exits on its own: its ends of the pipes close.
ChildExits ==
    /\ Delivered
    /\ \E p \in alive :
         /\ alive' = alive \ {p}
         /\ IF p = process
            THEN /\ returncode' = "0"
                 /\ pipe_in' = <<>>
            ELSE UNCHANGED <<returncode, pipe_in>>
    /\ UNCHANGED <<variant, lifecycle, httpVars, process, spawned, stdin_closed,
                   stdout_closed, stderr_closed, pipe_out, answered, request_id_counter, lock, thr,
                   adm, lastSend, generated, teardown, clientVars, rpcVars>>

\* ---- StdioTransport.send_request, one step per statement that touches
\* shared state

\* transports.py:166-167: the readiness test
\* (StdioReadyMutant: the test without "poll() is not None").
StdioReadyMutant == process # 0 /\ ~stdin_closed /\ ~stdout_closed
StdioReady == process # 0 /\ ~stdin_closed /\ ~stdout_closed /\ process \in alive

\* The transport is in the Initialized state with a running child and open pipes.
InInitializedState ==
    /\ lifecycle = "Initialized"
    /\ process \in alive
    /\ ~stdin_closed
    /\ ~stdout_closed

\* transports.py:170: "with self._lock" is entered when the lock is free
\* (LockAvailableMutant: send_request without the lock).
LockAvailableMutant == TRUE
LockAvailable == lock = 0

\* transports.py:205-220: what send_request raises for an exception raised
\* inside its try block: every except clause raises McpTransportError, and
\* "except Exception" catches JsonRpcError and McpTransportError too
\* (WrapMutant: send_request with the "except BrokenPipeError" clause only).
WrapMutant(e) ==
    CASE e = "BrokenPipeError" -> "McpTransportError"
      [] OTHER                 -> e
Wrap(e) ==
    CASE e = "BrokenPipeError" -> "McpTransportError"
      [] e = "JSONDecodeError" -> "McpTransportError"
      [] OTHER                 -> "McpTransportError"

\* str(e) of an exception met inside the try block: a JsonRpcError is built
\* from the "message" of the error member (transports.py:195-197, rpc.py:38),
\* so its text is the message of the server; the McpTransportError of
\* transports.py:190 says that no response came.
StrOf(e) ==
    CASE e = "JsonRpcError" -> "server_message"
      [] e = "EndOfStream"  -> "No response from STDIO process"
      [] OTHER              -> e

\* transports.py:220: the message of the McpTransportError raised by the
\* "except Exception" clause (CommunicationErrorMutant: a message without
\* the text of the exception caught).
CommunicationErrorMutant(e) == <<"STDIO communication error">>
CommunicationError(e) == <<"STDIO communication error", StrOf(e)>>

\* transports.py:205-220: the message of the error that leaves send_request,
\* as the sequence of its parts: e is the exception met, outcome the one
\* raised. An exception that is not wrapped keeps its own text.
ErrorText(e, outcome) ==
    CASE outcome = "returned"  -> <<>>
      [] outcome = e           -> <<e>>
      [] e = "BrokenPipeError" -> <<"Broken pipe with STDIO process", "Return code">>
      [] e = "JSONDecodeError" -> <<"Invalid JSON response from STDIO server", e>>
      [] OTHER                 -> CommunicationError(e)

\* send_request of thread t ends, by raising (e is the exception met, outcome
\* the one that leaves send_request) or by returning resp; line is the
\* response line it read, if any. The with block is left
\* (EndsMutant: a lock released by hand before the return only).
EndsMutant(t, wrote, line, e, outcome, rc, resp) ==
    /\ lastSend' = [ready |-> thr[t].ready, wrote |-> wrote, line |-> line, exc |-> e,
                    outcome |-> outcome, rc |-> rc, response |-> resp,
                    text |-> ErrorText(e, outcome)]
    /\ thr' = [thr EXCEPT ![t] = IdleThread]
    /\ lock' = IF lock = t /\ outcome = "returned" THEN 0 ELSE lock
Ends(t, wrote, line, e, outcome, rc, resp) ==
    /\ lastSend' = [ready |-> thr[t].ready, wrote |-> wrote, line |-> line, exc |-> e,
                    outcome |-> outcome, rc |-> rc, response |-> resp,
                    text |-> ErrorText(e, outcome)]
    /\ thr' = [thr EXCEPT ![t] = IdleThread]
    /\ lock' = IF lock = t THEN 0 ELSE lock

\* transports.py:165-168: send_request is called with a request; not ready
\* raises McpTransportError at once.
Check(t) ==
    /\ Delivered
    /\ variant = "stdio"
    /\ thr[t].pc = "idle"
    /\ \E id \in CallerIds :
         /\ id = 0 => request_id_counter <= MaxId
         /\ IF StdioReady
            THEN /\ thr' = [thr EXCEPT ![t] = [pc |-> "acquire", given |-> id, id |-> id,
                                               ready |-> InInitializedState]]
                 /\ UNCHANGED lastSend
            ELSE /\ lastSend' = [NoSend EXCEPT !.ready = InInitializedState,
                                               !.exc = "not_ready",
                                               !.outcome = "McpTransportError",
                                               !.text = <<"STDIO process not running">>]
                 /\ UNCHANGED thr
    /\ UNCHANGED <<variant, lifecycle, httpVars, procVars, pipeVars, request_id_counter,
                   lock, adm, generated, teardown, clientVars, rpcVars>>

\* transports.py:170: acquire the lock.
Acquire(t) ==
    /\ Delivered
    /\ thr[t].pc = "acquire"
    /\ LockAvailable
    /\ lock' = t
    /\ thr' = [thr EXCEPT ![t].pc = "assign"]
    /\ UNCHANGED <<variant, lifecycle, httpVars, procVars, pipeVars, request_id_counter,
                   adm, lastSend, generated, teardown, clientVars, rpcVars>>

\* transports.py:171-172: a request without id gets the counter's value.
Assign(t) ==
    /\ Delivered
    /\ thr[t].pc = "assign"
    /\ IF thr[t].id = 0
       THEN /\ thr' = [thr EXCEPT ![t] = [@ EXCEPT !.pc = "incr", !.id = request_id_counter]]
            /\ generated' = Append(generated, request_id_counter)
       ELSE /\ thr' = [thr EXCEPT ![t].pc = "log"]
            /\ UNCHANGED generated
    /\ UNCHANGED <<variant, lifecycle, httpVars, procVars, pipeVars, request_id_counter,
                   lock, adm, lastSend, teardown, clientVars, rpcVars>>

\* transports.py:173: the counter is incremented.
Incr(t) ==
    /\ Delivered
    /\ thr[t].pc = "incr"
    /\ request_id_counter' = request_id_counter + 1
    /\ thr' = [thr EXCEPT ![t].pc = "log"]
    /\ UNCHANGED <<variant, lifecycle, httpVars, procVars, pipeVars, lock, adm, lastSend,
                   generated, teardown, clientVars, rpcVars>>

\* transports.py:175-176: the payload is built and logged with
\* self._process.pid, outside the try block.
Log(t) ==
    /\ Delivered
    /\ thr[t].pc = "log"
    /\ IF process = 0
       THEN Ends(t, 0, "none", "AttributeError", "AttributeError", "none", "none")
       ELSE /\ thr' = [thr EXCEPT ![t].pc = "write"]
            /\ UNCHANGED <<lock, lastSend>>
    /\ UNCHANGED <<variant, lifecycle, httpVars, procVars, pipeVars, request_id_counter,
                   adm, generated, teardown, clientVars, rpcVars>>

\* transports.py:179-180,205-220: the request line is written and flushed.
Write(t) ==
    /\ Delivered
    /\ thr[t].pc = "write"
    /\ IF process = 0
       THEN /\ Ends(t, 0, "none", "AttributeError", Wrap("AttributeError"), "none", "none")
            /\ UNCHANGED pipe_in
       ELSE IF stdin_closed
       THEN /\ Ends(t, 0, "none", "ValueError", Wrap("ValueError"), "none", "none")
            /\ UNCHANGED pipe_in
       ELSE IF process \notin alive
       THEN /\ Ends(t, 0, "none", "BrokenPipeError", Wrap("BrokenPipeError"), returncode, "none")
            /\ UNCHANGED pipe_in
       ELSE /\ pipe_in' = Append(pipe_in, [id |-> thr[t].id, method |-> "request", by |-> t])
            /\ thr' = [thr EXCEPT ![t].pc = "read"]
            /\ UNCHANGED <<lock, lastSend>>
    /\ UNCHANGED <<variant, lifecycle, httpVars, procVars, pipe_out, answered, request_id_counter,
                   adm, generated, teardown, clientVars, rpcVars>>

\* transports.py:193-197: what decoding and examining a response line raises
\* (DecodedMutant: a send_request that refuses a response with another id).
DecodedMutant(line) ==
    CASE line = "garbage"   -> "JSONDecodeError"
      [] line = "nonobject" -> "TypeError"
      [] line = "error"     -> "JsonRpcError"
      [] line = "mismatch"  -> "McpTransportError"
      [] OTHER              -> "none"
Decoded(line) ==
    CASE line = "garbage"   -> "JSONDecodeError"
      [] line = "nonobject" -> "TypeError"
      [] line = "error"     -> "JsonRpcError"
      [] OTHER              -> "none"

\* transports.py:182-203,205-220: one line is read from the child's stdout,
\* decoded and examined; the read blocks while the child runs and has written
\* nothing. A response without "error" is returned, whatever its id.
Read(t) ==
    /\ Delivered
    /\ thr[t].pc = "read"
    /\ IF process = 0
       THEN /\ Ends(t, 1, "none", "AttributeError", Wrap("AttributeError"), "none", "none")
            /\ UNCHANGED <<pipe_out, answered>>
       ELSE IF stdout_closed
       THEN /\ Ends(t, 1, "none", "ValueError", Wrap("ValueError"), "none", "none")
            /\ UNCHANGED <<pipe_out, answered>>
       ELSE IF pipe_out > 0
       THEN /\ pipe_out' = pipe_out - 1
            /\ answered' = Tail(answered)
            /\ \E line \in ResponseKinds :
                 IF Decoded(line) = "none"
                 THEN Ends(t, 1, line, "none", "returned", "none", line)
                 ELSE Ends(t, 1, line, Decoded(line), Wrap(Decoded(line)), "none", "none")
       ELSE /\ process \notin alive
            /\ Ends(t, 1, "none", "EndOfStream", Wrap("McpTransportError"), "none", "none")
            /\ UNCHANGED <<pipe_out, answered>>
    /\ UNCHANGED <<variant, lifecycle, httpVars, procVars, pipe_in, request_id_counter,
                   adm, generated, teardown, clientVars, rpcVars>>

\* ---- StdioTransport.shutdown, one step per group of statements

\* transports.py:129: "if self._process" (HasProcessMutant: the body of
\* shutdown run whatever _process is).
HasProcessMutant == TRUE
HasProcess == process # 0

\* transports.py:128-132: nothing to do without a process ("noop"); the exit
\* request is sent only when stdin is open.
ShutdownBegin ==
    /\ Delivered
    /\ variant = "stdio"
    /\ adm.pc = "idle"
    /\ request_id_counter <= MaxId
    /\ IF ~HasProcess
       THEN adm' = [adm EXCEPT !.pc = "noop"]
       ELSE adm' = [adm EXCEPT !.pc = IF stdin_closed THEN "terminate" ELSE "exit_id"]
    /\ UNCHANGED <<variant, lifecycle, httpVars, procVars, pipeVars, request_id_counter,
                   lock, thr, lastSend, generated, teardown, clientVars, rpcVars>>

\* transports.py:134: the exit request takes the counter's value as its id.
ShutdownExitId ==
    /\ Delivered
    /\ adm.pc = "exit_id"
    /\ adm' = [pc |-> "exit_incr", id |-> request_id_counter]
    /\ generated' = Append(generated, request_id_counter)
    /\ UNCHANGED <<variant, lifecycle, httpVars, procVars, pipeVars, request_id_counter,
                   lock, thr, lastSend, teardown, clientVars, rpcVars>>

\* transports.py:135: the counter is incremented.
ShutdownIncr ==
    /\ Delivered
    /\ adm.pc = "exit_incr"
    /\ request_id_counter' = request_id_counter + 1
    /\ adm' = [adm EXCEPT !.pc = "exit_write"]
    /\ UNCHANGED <<variant, lifecycle, httpVars, procVars, pipeVars, lock, thr, lastSend,
                   generated, teardown, clientVars, rpcVars>>

\* transports.py:136-140: the exit line is written and stdin closed; when
\* the write fails the exception is logged and stdin is left as it is.
ShutdownWrite ==
    /\ Delivered
    /\ adm.pc = "exit_write"
    /\ IF process \in alive
       THEN /\ pipe_in' = Append(pipe_in, [id |-> adm.id, method |-> "exit", by |-> 0])
            /\ stdin_closed' = TRUE
            /\ teardown' = teardown \o <<"exit_request", "stdin_closed">>
       ELSE UNCHANGED <<pipe_in, stdin_closed, teardown>>
    /\ adm' = [adm EXCEPT !.pc = "terminate"]
    /\ UNCHANGED <<variant, lifecycle, httpVars, process, spawned, alive, returncode,
                   stdout_closed, stderr_closed, pipe_out, answered, request_id_counter, lock, thr,
                   lastSend, generated, clientVars, rpcVars>>

\* What terminate(), wait(timeout=5) and kill() did to a child that ended
\* with return code rc: a child that obeys the signal ends with -15, one that
\* does not is killed after the wait timed out and ends with -9.
Escalation(rc) ==
    IF rc = "-15" THEN <<"terminate">> ELSE <<"terminate", "timeout", "kill">>

\* transports.py:142-148: a child still running is sent terminate(), waited
\* for 5 seconds and killed when the wait times out; the three statements as
\* one step.
ShutdownTerminate ==
    /\ Delivered
    /\ adm.pc = "terminate"
    /\ IF process \in alive
       THEN /\ alive' = alive \ {process}
            /\ \E rc \in {"-15", "-9"} :
                 /\ returncode' = rc
                 /\ teardown' = teardown \o Escalation(rc)
            /\ pipe_in' = <<>>
       ELSE UNCHANGED <<alive, returncode, pipe_in, teardown>>
    /\ adm' = [adm EXCEPT !.pc = "close_out"]
    /\ UNCHANGED <<variant, lifecycle, httpVars, process, spawned, stdin_closed,
                   stdout_closed, stderr_closed, pipe_out, answered, request_id_counter, lock, thr,
                   lastSend, generated, clientVars, rpcVars>>

\* transports.py:150-161: stderr is drained and closed, stdout is closed. The
\* drain reads stderr to its end, which comes when the child has ended.
ShutdownCloseOut ==
    /\ Delivered
    /\ variant = "stdio"
    /\ adm.pc = "close_out"
    /\ process \notin alive
    /\ stderr_closed' = TRUE
    /\ stdout_closed' = TRUE
    /\ teardown' = teardown \o <<"stderr_closed", "stdout_closed">>
    /\ adm' = [adm EXCEPT !.pc = "release"]
    /\ UNCHANGED <<variant, lifecycle, httpVars, process, spawned, alive, returncode,
                   stdin_closed, pipeVars, request_id_counter, lock, thr, lastSend, generated,
                   clientVars, rpcVars>>

\* transports.py:162-163: the process reference is dropped and shutdown
\* returns: what it did to the child is over.
ShutdownRelease ==
    /\ Delivered
    /\ variant = "stdio"
    /\ adm.pc = "release"
    /\ process' = 0
    /\ returncode' = "none"
    /\ stdin_closed' = FALSE
    /\ stdout_closed' = FALSE
    /\ stderr_closed' = FALSE
    /\ pipe_in' = <<>>
    /\ pipe_out' = 0
    /\ answered' = <<>>
    /\ lifecycle' = "ShutDown"
    /\ adm' = IdleAdmin
    /\ teardown' = <<>>
    /\ UNCHANGED <<variant, httpVars, spawned, alive, request_id_counter, lock, thr,
                   lastSend, generated, clientVars, rpcVars>>

\* transports.py:71,163: a shutdown() that closed the HTTP client, or found
\* nothing to release, returns to its caller.
ShutdownReturns ==
    /\ adm.pc \in {"noop", "closed"}
    /\ adm' = IdleAdmin
    /\ UNCHANGED <<variant, lifecycle, httpVars, procVars, pipeVars, request_id_counter,
                   lock, thr, lastSend, generated, teardown, clientVars, rpcVars>>

\* The caller of the send_request that ended takes its outcome. This is the
\* next step after the end (Delivered guards every other step): it touches
\* nothing the other steps read, so the order loses no behaviour.
Returns ==
    /\ lastSend # NoSend
    /\ lastSend' = NoSend
    /\ UNCHANGED <<variant, lifecycle, httpVars, procVars, pipeVars, request_id_counter,
                   lock, thr, adm, generated, teardown, clientVars, rpcVars>>

TransportNext ==
    \/ HttpInitialize
    \/ HttpShutdown
    \/ HttpSendRequest
    \/ StdioInitializeOk
    \/ StdioInitializeRaises
    \/ ChildAnswers
    \/ ChildExits
    \/ \E t \in SendThreads : Check(t)
    \/ \E t \in SendThreads : Acquire(t)
    \/ \E t \in SendThreads : Assign(t)
    \/ \E t \in SendThreads : Incr(t)
    \/ \E t \in SendThreads : Log(t)
    \/ \E t \in SendThreads : Write(t)
    \/ \E t \in SendThreads : Read(t)
    \/ Returns
    \/ ShutdownBegin
    \/ ShutdownExitId
    \/ ShutdownIncr
    \/ ShutdownWrite
    \/ ShutdownTerminate
    \/ ShutdownCloseOut
    \/ ShutdownRelease
    \/ ShutdownReturns

InitTransport == TransportInit /\ ClientIdle /\ RpcIdle

SpecTransport == InitTransport /\ [][TransportNext]_vars

\* One caller makes initialize, send_request and shutdown calls on a transport
\* instance, in any order and any number of times.
Caller == 1

LifecycleNext ==
    \/ HttpInitialize
    \/ HttpShutdown
    \/ HttpSendRequest
    \/ StdioInitialize
    \/ StdioInitializeRaises
    \/ ChildAnswers
    \/ ChildExits
    \/ Check(Caller)
    \/ Acquire(Caller)
    \/ Assign(Caller)
    \/ Incr(Caller)
    \/ Log(Caller)
    \/ Write(Caller)
    \/ Read(Caller)
    \/ Returns
    \/ ShutdownBegin
    \/ ShutdownExitId
    \/ ShutdownIncr
    \/ ShutdownWrite
    \/ ShutdownTerminate
    \/ ShutdownCloseOut
    \/ ShutdownRelease
    \/ ShutdownReturns

InitLifecycle == TransportInit /\ ClientIdle /\ RpcIdle

SpecLifecycle == InitLifecycle /\ [][LifecycleNext]_vars

\* ------------------------------------- termination, statement by statement

\* transports.py:142, gateways.py:98,145: "poll() is None", the child is
\* still running (StillRunningMutant: the signal sent without the test).
StillRunningMutant == TRUE
StillRunning == process \in alive

\* transports.py:145, gateways.py:147: wait(timeout=5) gives up after five
\* seconds (WaitTimesOutMutant: wait() without a timeout).
WaitTimesOutMutant == FALSE
WaitTimesOut == TRUE

\* transports.py:142-143: a child still running is sent the termination
\* signal; one that has ended is left alone.
ShutdownSignals ==
    /\ variant = "stdio"
    /\ adm.pc = "terminate"
    /\ IF StillRunning
       THEN /\ teardown' = Append(teardown, "terminate")
            /\ adm' = [adm EXCEPT !.pc = "wait"]
       ELSE /\ adm' = [adm EXCEPT !.pc = "close_out"]
            /\ UNCHANGED teardown
    /\ UNCHANGED <<variant, lifecycle, httpVars, procVars, pipeVars, request_id_counter,
                   lock, thr, lastSend, generated, clientVars, rpcVars>>

\* transports.py:144-146: wait(timeout=5) returns once the child has ended
\* and raises TimeoutExpired while it runs.
ShutdownWaits ==
    /\ variant = "stdio"
    /\ adm.pc = "wait"
    /\ IF process \notin alive
       THEN /\ adm' = [adm EXCEPT !.pc = "close_out"]
            /\ UNCHANGED teardown
       ELSE /\ WaitTimesOut
            /\ teardown' = Append(teardown, "timeout")
            /\ adm' = [adm EXCEPT !.pc = "kill"]
    /\ UNCHANGED <<variant, lifecycle, httpVars, procVars, pipeVars, request_id_counter,
                   lock, thr, lastSend, generated, clientVars, rpcVars>>

\* transports.py:147-148: the child is killed.
ShutdownKills ==
    /\ variant = "stdio"
    /\ adm.pc = "kill"
    /\ alive' = alive \ {process}
    /\ returncode' = IF process \in alive THEN "-9" ELSE returncode
    /\ pipe_in' = <<>>
    /\ teardown' = Append(teardown, "kill")
    /\ adm' = [adm EXCEPT !.pc = "close_out"]
    /\ UNCHANGED <<variant, lifecycle, httpVars, process, spawned, stdin_closed,
                   stdout_closed, stderr_closed, pipe_out, answered, request_id_counter, lock, thr,
                   lastSend, generated, clientVars, rpcVars>>

\* ---- StdioGateway

\* gateways.py:65-86: start_process starts a child; one the gateway held
\* before is no longer referenced.
StartProcess ==
    /\ variant = "gateway"
    /\ adm.pc = "idle"
    /\ spawned < MaxGenerations
    /\ spawned' = spawned + 1
    /\ process' = spawned + 1
    /\ alive' = alive \cup {spawned + 1}
    /\ returncode' = "none"
    /\ stdin_closed' = FALSE
    /\ stdout_closed' = FALSE
    /\ stderr_closed' = FALSE
    /\ pipe_in' = <<>>
    /\ pipe_out' = 0
    /\ answered' = <<>>
    /\ UNCHANGED <<variant, lifecycle, httpVars, request_id_counter, lock, thr, adm, lastSend,
                   generated, teardown, clientVars, rpcVars>>

\* gateways.py:132-142: terminate_process returns at once without a process
\* ("noop"); stdin is closed when it is open.
TerminateProcess ==
    /\ variant = "gateway"
    /\ adm.pc = "idle"
    /\ IF process = 0
       THEN /\ adm' = [adm EXCEPT !.pc = "noop"]
            /\ UNCHANGED <<stdin_closed, teardown>>
       ELSE /\ adm' = [adm EXCEPT !.pc = "terminate"]
            /\ stdin_closed' = TRUE
            /\ teardown' = IF stdin_closed THEN teardown
                                           ELSE Append(teardown, "stdin_closed")
    /\ UNCHANGED <<variant, lifecycle, httpVars, process, spawned, alive, returncode,
                   stdout_closed, stderr_closed, pipeVars, request_id_counter, lock, thr,
                   lastSend, generated, clientVars, rpcVars>>

\* gateways.py:145-146: a child still running is sent the termination signal.
TerminateSignals ==
    /\ variant = "gateway"
    /\ adm.pc = "terminate"
    /\ IF StillRunning
       THEN /\ teardown' = Append(teardown, "terminate")
            /\ adm' = [adm EXCEPT !.pc = "wait"]
       ELSE /\ adm' = [adm EXCEPT !.pc = "close_out"]
            /\ UNCHANGED teardown
    /\ UNCHANGED <<variant, lifecycle, httpVars, procVars, pipeVars, request_id_counter,
                   lock, thr, lastSend, generated, clientVars, rpcVars>>

\* gateways.py:147-149: wait(timeout=5) returns once the child has ended and
\* raises TimeoutExpired while it runs.
TerminateWaits ==
    /\ variant = "gateway"
    /\ adm.pc = "wait"
    /\ IF process \notin alive
       THEN /\ adm' = [adm EXCEPT !.pc = "close_out"]
            /\ UNCHANGED teardown
       ELSE /\ WaitTimesOut
            /\ teardown' = Append(teardown, "timeout")
            /\ adm' = [adm EXCEPT !.pc = "kill"]
    /\ UNCHANGED <<variant, lifecycle, httpVars, procVars, pipeVars, request_id_counter,
                   lock, thr, lastSend, generated, clientVars, rpcVars>>

\* gateways.py:149-150: the child is killed.
TerminateKills ==
    /\ variant = "gateway"
    /\ adm.pc = "kill"
    /\ alive' = alive \ {process}
    /\ returncode' = IF process \in alive THEN "-9" ELSE returncode
    /\ pipe_in' = <<>>
    /\ teardown' = Append(teardown, "kill")
    /\ adm' = [adm EXCEPT !.pc = "close_out"]
    /\ UNCHANGED <<variant, lifecycle, httpVars, process, spawned, stdin_closed,
                   stdout_closed, stderr_closed, pipe_out, answered, request_id_counter, lock, thr,
                   lastSend, generated, clientVars, rpcVars>>

\* gateways.py:152-163: stdout, then stderr, is closed.
TerminateCloses ==
    /\ variant = "gateway"
    /\ adm.pc = "close_out"
    /\ stdout_closed' = TRUE
    /\ stderr_closed' = TRUE
    /\ teardown' = teardown \o <<"stdout_closed", "stderr_closed">>
    /\ adm' = [adm EXCEPT !.pc = "release"]
    /\ UNCHANGED <<variant, lifecycle, httpVars, process, spawned, alive, returncode,
                   stdin_closed, pipeVars, request_id_counter, lock, thr, lastSend, generated,
                   clientVars, rpcVars>>

\* gateways.py:165: the process reference is dropped and terminate_process
\* returns.
TerminateReleases ==
    /\ variant = "gateway"
    /\ adm.pc = "release"
    /\ process' = 0
    /\ returncode' = "none"
    /\ stdin_closed' = FALSE
    /\ stdout_closed' = FALSE
    /\ stderr_closed' = FALSE
    /\ pipe_in' = <<>>
    /\ pipe_out' = 0
    /\ answered' = <<>>
    /\ adm' = IdleAdmin
    /\ teardown' = <<>>
    /\ UNCHANGED <<variant, lifecycle, httpVars, spawned, alive, request_id_counter, lock,
                   thr, lastSend, generated, clientVars, rpcVars>>

\* A StdioTransport or a StdioGateway, just constructed
\* (transports.py:103-107, gateways.py:60-62).
TerminationInit ==
    /\ variant \in {"stdio", "gateway"}
    /\ lifecycle = "Uninitialized"
    /\ http_client = FALSE
    /\ httpCall = NoHttpCall
    /\ process = 0
    /\ spawned = 0
    /\ alive = {}
    /\ returncode = "none"
    /\ stdin_closed = FALSE
    /\ stdout_closed = FALSE
    /\ stderr_closed = FALSE
    /\ pipe_in = <<>>
    /\ pipe_out = 0
    /\ answered = <<>>
    /\ request_id_counter = 1
    /\ lock = 0
    /\ thr = [t \in SendThreads |-> IdleThread]
    /\ adm = IdleAdmin
    /\ lastSend = NoSend
    /\ generated = <<>>
    /\ teardown = <<>>

\* The steps of a shutdown() or terminate_process() under way: the thread
\* that runs it takes them one after the other.
TerminationSteps ==
    \/ ShutdownExitId
    \/ ShutdownIncr
    \/ ShutdownWrite
    \/ ShutdownSignals
    \/ ShutdownWaits
    \/ ShutdownKills
    \/ ShutdownCloseOut
    \/ ShutdownRelease
    \/ ShutdownReturns
    \/ TerminateSignals
    \/ TerminateWaits
    \/ TerminateKills
    \/ TerminateCloses
    \/ TerminateReleases

\* One caller starts children and ends them; a child answers, or exits, when
\* it chooses.
TerminationNext ==
    \/ StdioInitialize
    \/ StartProcess
    \/ ChildAnswers
    \/ ChildExits
    \/ ShutdownBegin
    \/ TerminateProcess
    \/ TerminationSteps

InitTermination == TerminationInit /\ ClientIdle /\ RpcIdle

SpecTermination == InitTermination /\ [][TerminationNext]_vars

\* The thread inside shutdown() or terminate_process() keeps running: a step
\* of the operation that can be taken is taken.
SpecTerminationFair == SpecTermination /\ WF_vars(TerminationSteps)

\* ------------------------------------- concurrent callers and a serving child

\* Several threads call send_request on one pipe transport whose child is a
\* server that keeps running and answers every request line with one
\* response line carrying the request's id, in the order received
\* (mcp_stdio.py:133-150, rpc.py:106-150).
CorrelationNext ==
    \/ StdioInitializeOk
    \/ ChildAnswers
    \/ \E t \in SendThreads : Check(t)
    \/ \E t \in SendThreads : Acquire(t)
    \/ \E t \in SendThreads : Assign(t)
    \/ \E t \in SendThreads : Incr(t)
    \/ \E t \in SendThreads : Log(t)
    \/ \E t \in SendThreads : Write(t)
    \/ \E t \in SendThreads : Read(t) /\ lastSend'.line # "mismatch"
    \/ Returns

InitCorrelation == TransportInit /\ variant = "stdio" /\ ClientIdle /\ RpcIdle

SpecCorrelation == InitCorrelation /\ [][CorrelationNext]_vars

\* ------------------------------------------- McpClient over a transport

\* McpClient([transport]) has returned, for a transport of either class whose
\* initialize() and tools/list succeeded during discovery (client.py:38-81):
\* the transport is initialized, its child runs, the tools it listed are
\* registered on it. The tools/list request carried the client's own id
\* (client.py:34,51), so the transport has generated none.
SessionInit ==
    /\ transports = 1
    /\ phase = "ready"
    /\ idx = 1
    /\ step = "init"
    /\ all_discovered = <<>>
    /\ \E tools \in ToolLists(1, MaxDiscovered) :
         LET r == RegisterFrom(Appended(tools, 1), 1, {}, <<>>, <<>>)
         IN /\ advertised = [t \in Transports |-> IF t = 1 THEN tools ELSE <<>>]
            /\ tool_to_transport_map = r.map
            /\ tool_schemas = r.schemas
    /\ initCalls = [t \in Transports |-> IF t = 1 THEN 1 ELSE 0]
    /\ listSends = [t \in Transports |-> IF t = 1 THEN 1 ELSE 0]
    /\ callSends = [t \in Transports |-> 0]
    /\ discovery = [t \in Transports |-> IF t = 1 THEN "ok" ELSE "pending"]
    /\ lastCall = NoCall
    /\ shutdownCalls = {}
    /\ variant \in {"http", "stdio"}
    /\ lifecycle = "Initialized"
    /\ http_client = (variant = "http")
    /\ httpCall = NoHttpCall
    /\ process = (IF variant = "stdio" THEN 1 ELSE 0)
    /\ spawned = (IF variant = "stdio" THEN 1 ELSE 0)
    /\ alive = (IF variant = "stdio" THEN {1} ELSE {})
    /\ returncode = "none"
    /\ stdin_closed = FALSE
    /\ stdout_closed = FALSE
    /\ stderr_closed = FALSE
    /\ pipe_in = <<>>
    /\ pipe_out = 0
    /\ answered = <<>>
    /\ request_id_counter = 1
    /\ lock = 0
    /\ thr = [t \in SendThreads |-> IdleThread]
    /\ adm = IdleAdmin
    /\ lastSend = NoSend
    /\ generated = <<>>
    /\ teardown = <<>>

\* client.py:123-133: call_tool of a registered name has built its request
\* and calls send_request on the transport the name is routed to; calls lists
\* the transports send_request was called on for this call_tool.
Pending(name) ==
    [NoCall EXCEPT !.op = "call_tool", !.name = name, !.via = {Route(name)},
                   !.outcome = "pending", !.calls = <<Route(name)>>]

\* call_tool is inside transport.send_request (client.py:134).
Sending == lastCall.op = "call_tool" /\ lastCall.outcome = "pending"

\* shutdown() is inside transport.shutdown() (client.py:170).
Stopping == lastCall.op = "shutdown" /\ lastCall.outcome = "pending"

\* client.py:102-134: call_tool up to its call of send_request.
CallToolBegins ==
    /\ phase = "ready" /\ AtRest
    /\ \E name \in CallNames :
         lastCall' = IF name \notin DOMAIN tool_to_transport_map THEN NotFound(name)
                                                                 ELSE Pending(name)
    /\ UNCHANGED <<transports, phase, idx, step, all_discovered, tool_to_transport_map,
                   tool_schemas, initCalls, listSends, callSends, discovery, advertised,
                   shutdownCalls, transportVars, rpcVars>>

\* How the send_request that call_tool made has ended ("none": it has not).
SendOutcome == IF variant = "http" THEN httpCall.outcome ELSE lastSend.outcome

\* client.py:134-162: what call_tool gets from a send_request that ended with
\* o: a response of any shape when it returned, the error when it raised
\* McpTransportError or JsonRpcError, some other exception otherwise.
Heard(o) ==
    IF o = "returned" THEN {"result", "malformed"} \cup ErrorPayloads
    ELSE IF o \in {"McpTransportError", "JsonRpcError"} THEN {o}
    ELSE {"Exception"}

\* client.py:155-162: the except clauses of call_tool raise; none sends the
\* request again (RetriesMutant: a call_tool that sends again after an error
\* of the transport or the protocol).
RetriesMutant(r) == r \in {"McpTransportError", "JsonRpcError"}
Retries(r) == FALSE

\* client.py:134-162: send_request has ended and call_tool ends with it.
CallToolEnds ==
    /\ Sending
    /\ SendOutcome # "none"
    /\ \E r \in Heard(SendOutcome) :
         lastCall' = IF Retries(r)
                     THEN [lastCall EXCEPT !.calls = Append(@, Route(lastCall.name))]
                     ELSE [Called(lastCall.name, r) EXCEPT !.calls = lastCall.calls]
    /\ lastSend' = NoSend
    /\ httpCall' = NoHttpCall
    /\ UNCHANGED <<transports, phase, idx, step, all_discovered, tool_to_transport_map,
                   tool_schemas, initCalls, listSends, callSends, discovery, advertised,
                   shutdownCalls, variant, lifecycle, http_client, procVars, pipeVars,
                   request_id_counter, lock, thr, adm, generated, teardown, rpcVars>>

\* client.py:164-170: shutdown() calls transport.shutdown() on its transport.
ShutdownBegins ==
    /\ phase = "ready" /\ AtRest
    /\ lastCall' = [NoCall EXCEPT !.op = "shutdown", !.outcome = "pending",
                                  !.via = {1}, !.calls = <<1>>]
    /\ shutdownCalls' = shutdownCalls \cup {1}
    /\ tool_to_transport_map' = ShutdownKeeps(tool_to_transport_map)
    /\ tool_schemas' = ShutdownKeeps(tool_schemas)
    /\ UNCHANGED <<transports, phase, idx, step, all_discovered, initCalls, listSends,
                   callSends, discovery, advertised, transportVars, rpcVars>>

\* client.py:170-172: transport.shutdown() has returned, the transport holds
\* nothing, and shutdown() returns. (A shutdown() of a transport that holds
\* nothing changes nothing.)
ShutdownEnds ==
    /\ Stopping
    /\ adm.pc = "idle"
    /\ ~HasProcess
    /\ ~HasClient
    /\ lastCall' = [lastCall EXCEPT !.outcome = "returned"]
    /\ UNCHANGED <<transports, phase, idx, step, all_discovered, tool_to_transport_map,
                   tool_schemas, initCalls, listSends, callSends, discovery, advertised,
                   shutdownCalls, transportVars, rpcVars>>

\* One caller uses the client: call_tool and shutdown(), one at a time, each
\* running the send_request or the shutdown() of the transport; the request
\* of call_tool carries an id (client.py:128-130). The child answers, or
\* exits, when it chooses.
SessionNext ==
    \/ CallToolBegins
    \/ Sending /\ httpCall = NoHttpCall /\ HttpSendRequest
    \/ Sending /\ Check(Caller) /\ (thr'[Caller].pc = "acquire" => thr'[Caller].given # 0)
    \/ Acquire(Caller)
    \/ Assign(Caller)
    \/ Log(Caller)
    \/ Write(Caller)
    \/ Read(Caller)
    \/ CallToolEnds
    \/ ~Sending /\ ~Stopping /\ OperationReturns
    \/ ShutdownBegins
    \/ Stopping /\ HttpShutdown
    \/ Stopping /\ ShutdownBegin
    \/ ShutdownExitId
    \/ ShutdownIncr
    \/ ShutdownWrite
    \/ ShutdownTerminate
    \/ ShutdownCloseOut
    \/ ShutdownRelease
    \/ ShutdownReturns
    \/ ShutdownEnds
    \/ ChildAnswers
    \/ ChildExits

InitSession == SessionInit /\ RpcIdle

SpecSession == InitSession /\ [][SessionNext]_vars

\* ------------------------------------------------- claims on the transports

\* Thread t is in its request/response cycle: at the write of its request
\* line, or past it with the response line not read yet.
InFlight(t) == thr[t].pc \in {"write", "read"}

\* C3: on one StdioTransport instance at most one thread at a time is between
\* writing its request line and finishing the read of the response line.
C3_SingleFlight ==
    \A t1, t2 \in SendThreads : InFlight(t1) /\ InFlight(t2) => t1 = t2

\* One thread has written and waits for the response while another waits for
\* the lock.
C3_Witness ==
    \E t1, t2 \in SendThreads : thr[t1].pc = "read" /\ thr[t2].pc = "acquire"

\* C4: on both variants a response carrying an "error" member makes
\* send_request raise JsonRpcError, not McpTransportError, and return nothing.
C4_ErrorResponseRaisesJsonRpcError ==
    /\ lastSend.line = "error" =>
          lastSend.outcome = "JsonRpcError" /\ lastSend.response = "none"
    /\ httpCall.met = "error_body" => httpCall.outcome = "JsonRpcError"

\* C5: send_request called on a transport that is not in the Initialized
\* state (never initialized, shut down, child exited, stdin or stdout closed)
\* raises McpTransportError, writes nothing and returns no response.
C5_OnlyValidWhenInitialized ==
    /\ (lastSend.outcome # "none" /\ ~lastSend.ready) =>
          /\ lastSend.outcome = "McpTransportError"
          /\ lastSend.wrote = 0
          /\ lastSend.response = "none"
    /\ (httpCall.outcome # "none" /\ ~httpCall.ready) =>
          /\ httpCall.outcome = "McpTransportError"
          /\ httpCall.posts = 0

\* send_request was refused on a pipe transport whose child has exited while
\* the instance still holds it with both pipes open.
C5_Witness ==
    /\ lastSend.exc = "not_ready"
    /\ ~lastSend.ready
    /\ process # 0
    /\ process \notin alive
    /\ ~stdin_closed
    /\ ~stdout_closed

C8_IdentifierAssignment ==
    /\ generated # <<>> => generated[1] = 1
    /\ \A i, j \in 1..Len(generated) : i < j => generated[i] < generated[j]
    /\ \A t \in SendThreads : thr[t].given # 0 => thr[t].id = thr[t].given

\* ------------------------------------------------------------ JsonRpcHandler

\* Error codes handle_request and _handle_tools_call put in an envelope.
METHOD_NOT_FOUND == -32601
INTERNAL_ERROR == -32603

\* request.id: None, a number, a string.
RequestIds == {"null", "1", "abc"}

\* A registered tool: the name of its descriptor and what run() does: it
\* returns a value, raises an exception, or raises JsonRpcError(-32000).
RpcToolNames == {"echo", "examine"}
ToolRuns == {"returns", "raises", "raises_rpc"}
RpcTools == [name : RpcToolNames, run : ToolRuns]
Registrations == UNION { [1..n -> RpcTools] : n \in 0..MaxTools }

\* params["name"] of a tools/call ("none": absent) and params["arguments"]
\* ("absent", a mapping, or a value that is not a mapping).
CallParamNames == RpcToolNames \cup {"zz", "none"}
CallArguments == {"absent", "mapping", "not_mapping"}

\* params["cursor"] of a tools/list: absent, the decimal string of an offset,
\* or a string that is not the decimal form of a non-negative integer.
Cursors == {"absent", "0", "1", "invalid", "-1"}

\* rpc.py:44-62: JsonRpcHandler.__init__.
RpcInit ==
    /\ rpc_tools \in Registrations
    /\ should_exit = FALSE
    /\ request = NoRequest
    /\ response = NoResponse
    /\ raised = FALSE
    /\ invoked = <<>>

\* rpc.py:103-117.
create_result_response(request_id, result) ==
    [jsonrpc |-> "2.0", id |-> request_id, members |-> {"result"}, code |-> 0,
     message |-> <<>>, result |-> result]

\* rpc.py:119-142
\* (create_error_responseMutant: the error envelope built with a null id).
create_error_responseMutant(request_id, code, message) ==
    [jsonrpc |-> "2.0", id |-> "null", members |-> {"error"}, code |-> code,
     message |-> message, result |-> NoResult]
create_error_response(request_id, code, message) ==
    [jsonrpc |-> "2.0", id |-> request_id, members |-> {"error"}, code |-> code,
     message |-> message, result |-> NoResult]

\* What a method handler did: returned result, or raised exc (a JsonRpcError
\* carries code and message; str(e) is the text of any other exception). A
\* message is the sequence of its parts: a fixed text, then what is formatted
\* into it.
Result(kind, items, nextCursor) ==
    [exc |-> "none", code |-> 0, message |-> <<>>,
     result |-> [kind |-> kind, items |-> items, nextCursor |-> nextCursor]]
Raises(exc, code, message) ==
    [exc |-> exc, code |-> code, message |-> message, result |-> NoResult]

\* rpc.py:144-165: version("mojentic-mcp") raises PackageNotFoundError when
\* the distribution is not installed.
handle_initialize(installed) ==
    IF installed THEN Result("server_info", <<>>, "absent")
    ELSE Raises("Exception", 0, <<"No package metadata was found">>)

\* rpc.py:168-178 (the flag is set by the action).
handle_exit == Result("null", <<>>, "absent")

\* rpc.py:180-199: every registered tool, in order, whatever params holds;
\* the result has the one member "tools".
handle_tools_list(cursor) ==
    Result("tools", [i \in 1..Len(rpc_tools) |-> rpc_tools[i].name], "absent")

\* rpc.py:214: the first registered tool with the name, 0 when there is none.
FindTool(name) ==
    IF \E i \in 1..Len(rpc_tools) : rpc_tools[i].name = name
    THEN CHOOSE i \in 1..Len(rpc_tools) :
            /\ rpc_tools[i].name = name
            /\ \A j \in 1..(i - 1) : rpc_tools[j].name # name
    ELSE 0

\* rpc.py:219: tool.run(**tool_arguments) runs the tool unless the arguments
\* cannot be unpacked (TypeError).
RunsTool(name, arguments) == FindTool(name) # 0 /\ arguments # "not_mapping"

\* rpc.py:216-217: no registered tool has the name
\* (ToolNotFoundMutant: a plain exception instead of JsonRpcError(-32601)).
ToolNotFoundMutant(name) == Raises("Exception", 0, <<"Tool not found", name>>)
ToolNotFound(name) == Raises("JsonRpcError", METHOD_NOT_FOUND, <<"Tool not found", name>>)

\* rpc.py:201-219: the value run() returns is returned as it is; what run()
\* raises propagates.
handle_tools_call(name, arguments) ==
    IF FindTool(name) = 0 THEN ToolNotFound(name)
    ELSE IF arguments = "not_mapping"
    THEN Raises("Exception", 0, <<"argument after ** must be a mapping">>)
    ELSE CASE rpc_tools[FindTool(name)].run = "returns" ->
                Result("tool_value", <<>>, "absent")
           [] rpc_tools[FindTool(name)].run = "raises" ->
                Raises("Exception", 0, <<"tool failure">>)
           [] rpc_tools[FindTool(name)].run = "raises_rpc" ->
                Raises("JsonRpcError", -32000, <<"tool error">>)

\* rpc.py:221-233 and 235-247: an empty collection and "nextCursor": None.
handle_resources_list == Result("resources", <<>>, "null")
handle_prompts_list == Result("prompts", <<>>, "null")

\* rpc.py:89 and 96: the except clauses of handle_request
\* (HandlerCatchesMutant: handle_request without "except Exception").
HandlerCatchesMutant(exc) == exc = "JsonRpcError"
HandlerCatches(exc) == exc = "JsonRpcError" \/ exc = "Exception"

\* rpc.py:86-101: the envelope for what the method handler did.
Respond(req, h) ==
    /\ request' = req
    /\ IF h.exc = "none"
       THEN /\ response' = create_result_response(req.id, h.result)
            /\ raised' = FALSE
       ELSE IF HandlerCatches(h.exc)
       THEN /\ response' =
                 IF h.exc = "JsonRpcError"
                 THEN create_error_response(req.id, h.code, h.message)
                 ELSE create_error_response(req.id, INTERNAL_ERROR,
                                            <<"Internal error">> \o h.message)
            /\ raised' = FALSE
       ELSE /\ response' = NoResponse
            /\ raised' = TRUE

Request(id, method) == [NoRequest EXCEPT !.id = id, !.method = method]

\* handle_request, one action per method of the dispatch table (rpc.py:55-62)
\* and one for a method that is not in it (rpc.py:78-83).
DispatchInitialize ==
    /\ \E id \in RequestIds, installed \in BOOLEAN :
         Respond(Request(id, "initialize"), handle_initialize(installed))
    /\ invoked' = <<>>
    /\ UNCHANGED <<rpc_tools, should_exit, clientVars, transportVars>>

DispatchExit ==
    /\ \E id \in RequestIds : Respond(Request(id, "exit"), handle_exit)
    /\ should_exit' = TRUE
    /\ invoked' = <<>>
    /\ UNCHANGED <<rpc_tools, clientVars, transportVars>>

DispatchToolsList ==
    /\ \E id \in RequestIds, cursor \in Cursors :
         Respond([Request(id, "tools/list") EXCEPT !.cursor = cursor],
                 handle_tools_list(cursor))
    /\ invoked' = <<>>
    /\ UNCHANGED <<rpc_tools, should_exit, clientVars, transportVars>>

DispatchToolsCall ==
    /\ \E id \in RequestIds, name \in CallParamNames, arguments \in CallArguments :
         /\ Respond([id |-> id, method |-> "tools/call", name |-> name,
                     arguments |-> arguments, cursor |-> "none"],
                    handle_tools_call(name, arguments))
         /\ invoked' = IF RunsTool(name, arguments) THEN <<FindTool(name)>> ELSE <<>>
    /\ UNCHANGED <<rpc_tools, should_exit, clientVars, transportVars>>

DispatchResourcesList ==
    /\ \E id \in RequestIds :
         Respond(Request(id, "resources/list"), handle_resources_list)
    /\ invoked' = <<>>
    /\ UNCHANGED <<rpc_tools, should_exit, clientVars, transportVars>>

DispatchPromptsList ==
    /\ \E id \in RequestIds : Respond(Request(id, "prompts/list"), handle_prompts_list)
    /\ invoked' = <<>>
    /\ UNCHANGED <<rpc_tools, should_exit, clientVars, transportVars>>

DispatchUnknown ==
    /\ \E id \in RequestIds :
         /\ request' = Request(id, "bogus")
         /\ response' = create_error_response(id, METHOD_NOT_FOUND,
                                               <<"Method not found", "bogus">>)
    /\ raised' = FALSE
    /\ invoked' = <<>>
    /\ UNCHANGED <<rpc_tools, should_exit, clientVars, transportVars>>

\* handle_request called on a handler that no server holds.
RequestInitialize == DispatchInitialize /\ UNCHANGED serverVars
RequestExit == DispatchExit /\ UNCHANGED serverVars
RequestToolsList == DispatchToolsList /\ UNCHANGED serverVars
RequestToolsCall == DispatchToolsCall /\ UNCHANGED serverVars
RequestResourcesList == DispatchResourcesList /\ UNCHANGED serverVars
RequestPromptsList == DispatchPromptsList /\ UNCHANGED serverVars
RequestUnknown == DispatchUnknown /\ UNCHANGED serverVars

RpcNext ==
    \/ RequestInitialize
    \/ RequestExit
    \/ RequestToolsList
    \/ RequestToolsCall
    \/ RequestResourcesList
    \/ RequestPromptsList
    \/ RequestUnknown

InitRpc == RpcInit /\ ServerIdle /\ ClientIdle /\ TransportIdle

SpecRpc == InitRpc /\ [][RpcNext]_vars

\* ------------------------------------------------------------ StdioMcpServer

\* Error codes the servers put in the envelopes they build themselves.
PARSE_ERROR == -32700
INVALID_REQUEST == -32600

\* The tool lists of the handlers the servers are built on: no tool
\* (mcp_stdio.py:167, mcp_http.py:129), or the tool "examine" that the legacy
\* command of the pipe server calls, with each behaviour of its run().
ServedRegistrations ==
    {<<>>} \cup { <<[name |-> "examine", run |-> r]>> : r \in ToolRuns }

\* rpc.py:44-62: the handler a server is given, before any request.
ServedHandlerInit ==
    /\ rpc_tools \in ServedRegistrations
    /\ should_exit = FALSE
    /\ request = NoRequest
    /\ response = NoResponse
    /\ raised = FALSE
    /\ invoked = <<>>

\* mcp_stdio.py:15-22: a server built on a handler; run() is not called yet.
StdioServerInit == ServedHandlerInit /\ ServerIdle

\* mcp_stdio.py:138: the condition of the loop, evaluated after an iteration
\* that left the flag at flag.
LoopAfter(flag) == IF flag THEN "ended" ELSE "running"

\* mcp_stdio.py:56-57: the stream _write_info writes its status line to.
InfoStreamMutant == "stdout"
InfoStream == "stderr"

\* mcp_stdio.py:133-138: run() announces itself with _write_info ("STDIO MCP
\* server ready") and enters the loop (should_exit is False since __init__).
ServerRun ==
    /\ loop = "new"
    /\ loop' = LoopAfter(server_should_exit)
    /\ lines_logged' = lines_logged + (IF InfoStream = "stderr" THEN 1 ELSE 0)
    /\ lines_written' = lines_written + (IF InfoStream = "stdout" THEN 1 ELSE 0)
    /\ UNCHANGED <<server_should_exit, lines_read, last_line, last_written,
                   http_reply, rpc_tools, should_exit, request, response, raised, invoked,
                   clientVars, transportVars>>

\* One iteration of the loop that read a line and wrote one: the line was
\* line, the line written is written, the flag is flag at the end of it.
Served(line, written, flag) ==
    /\ loop = "running"
    /\ lines_read < MaxLines
    /\ lines_read' = lines_read + 1
    /\ last_line' = line
    /\ lines_written' = lines_written + 1
    /\ last_written' = written
    /\ server_should_exit' = flag
    /\ loop' = LoopAfter(flag)
    /\ UNCHANGED <<lines_logged, http_reply, clientVars, transportVars>>

HandlerUntouched == UNCHANGED <<rpc_tools, should_exit, request, response, raised, invoked>>

\* mcp_stdio.py:31-34 and 141-142: readline() returned the empty string; the
\* flag is set and the loop is left before anything is handled or written.
ReadEndOfInput ==
    /\ loop = "running"
    /\ last_line' = "eof"
    /\ server_should_exit' = TRUE
    /\ loop' = "ended"
    /\ HandlerUntouched
    /\ UNCHANGED <<lines_read, lines_written, lines_logged, last_written, http_reply,
                   clientVars, transportVars>>

\* mcp_stdio.py:36-38 and 83-84: the line is not JSON; _read_request answers
\* {"error": "Invalid JSON request"} and _handle_request turns it into a
\* status line.
ReadInvalidJson ==
    /\ Served("invalid_json", "status_error: Invalid JSON request", server_should_exit)
    /\ HandlerUntouched

\* mcp_stdio.py:83-84: a JSON object with a member "error" is echoed as a
\* status line whatever else it holds.
ReadErrorMember ==
    /\ Served("error_member", "status_error: echoed", server_should_exit)
    /\ HandlerUntouched

\* mcp_stdio.py:83-96 and 146-150: the line is JSON but not an object (a
\* number, a string, a list, null); `"error" in request`, request["error"] or
\* request.get raises and run() writes a "Server error" status line.
ReadNotObject ==
    /\ Served("not_object", "status_error: Server error", server_should_exit)
    /\ HandlerUntouched

\* mcp_stdio.py:92: after a JSON-RPC request the server takes over the flag
\* of the handler
\* (ObservesFlagMutant: the server keeps its own flag).
ObservesFlagMutant(handler_flag) == server_should_exit
ObservesFlag(handler_flag) == handler_flag

\* mcp_stdio.py:88-93: a request with "jsonrpc": "2.0" and a method that
\* JsonRpcRequest accepts goes to the handler, whose envelope is written.
ReadJsonRpc ==
    /\ \/ DispatchInitialize
       \/ DispatchExit
       \/ DispatchToolsList
       \/ DispatchToolsCall
       \/ DispatchResourcesList
       \/ DispatchPromptsList
       \/ DispatchUnknown
    /\ Served("jsonrpc", "envelope", ObservesFlag(should_exit'))

\* mcp_stdio.py:90 and 121-131: JsonRpcRequest(**request) raises
\* ValidationError (method is not a string, params is not an object).
ReadJsonRpcInvalid ==
    /\ Served("jsonrpc_invalid", "invalid_request_envelope", server_should_exit)
    /\ HandlerUntouched

\* mcp_stdio.py:96 and 111-120: the legacy commands ping and exit, and any
\* other value of "command" (none included).
LegacyCommands == {"ping", "exit", "other"}
LegacyReply(command) ==
    CASE command = "ping" -> "status_success: pong"
      [] command = "exit" -> "status_success: Server exiting"
      [] OTHER            -> "status_error: Unknown command"
ReadCommand ==
    /\ \E command \in LegacyCommands :
         Served(IF command = "exit" THEN "command_exit" ELSE "command",
                LegacyReply(command),
                IF command = "exit" THEN TRUE ELSE server_should_exit)
    /\ HandlerUntouched

\* mcp_stdio.py:98-110: the legacy command examine becomes a tools/call of the
\* tool "examine" with id "legacy" and the whole request as arguments; the
\* "result" member of the envelope is written, or a status line when the
\* envelope has none.
ReadExamine ==
    /\ LET h == handle_tools_call("examine", "mapping")
       IN /\ Respond([id |-> "legacy", method |-> "tools/call", name |-> "examine",
                      arguments |-> "mapping", cursor |-> "none"], h)
          /\ invoked' = IF RunsTool("examine", "mapping")
                        THEN <<FindTool("examine")>> ELSE <<>>
          /\ Served("command",
                    IF h.exc = "none" THEN "result"
                    ELSE "status_error: Failed to process examine request",
                    server_should_exit)
    /\ UNCHANGED <<rpc_tools, should_exit>>

StdioServerNext ==
    \/ ServerRun
    \/ ReadEndOfInput
    \/ ReadInvalidJson
    \/ ReadErrorMember
    \/ ReadNotObject
    \/ ReadJsonRpc
    \/ ReadJsonRpcInvalid
    \/ ReadCommand
    \/ ReadExamine

InitStdioServer == StdioServerInit /\ ClientIdle /\ TransportIdle

SpecStdioServer == InitStdioServer /\ [][StdioServerNext]_vars

\* ------------------------------------------------------------- HttpMcpServer

\* mcp_http.py:15-25: a server built on a handler; no request has come yet.
HttpServerInit == ServedHandlerInit /\ ServerIdle

\* An envelope the endpoint builds itself (mcp_http.py:53-60, 68-76, 84-91):
\* the id is null.
EndpointError(code, message) == create_error_response("null", code, message)

\* mcp_http.py:47-50, 61-65, 77-81, 92-96: the Response for a body of the
\* kind body (200 is the status of a Response built without status_code).
Reply(body, status, envelope) == [body |-> body, status |-> status, envelope |-> envelope]

\* The endpoint answered without calling the handler.
Rejected(reply) ==
    /\ http_reply' = reply
    /\ UNCHANGED <<rpc_tools, should_exit, request, response, raised, invoked>>
    /\ UNCHANGED <<server_should_exit, loop, lines_read, lines_written, lines_logged,
                   last_line, last_written, clientVars, transportVars>>

\* mcp_http.py:38 and 51-65: request.json() raises JSONDecodeError.
PostInvalidJson ==
    Rejected(Reply("invalid_json", 400, EndpointError(PARSE_ERROR, <<"Parse error">>)))

\* mcp_http.py:41 and 82-96: the body is JSON but not an object (a list, a
\* string, a number, null); JsonRpcRequest(**body) raises TypeError, which
\* only "except Exception" catches.
PostNotObject ==
    Rejected(Reply("not_object", 500,
                   EndpointError(INTERNAL_ERROR,
                                 <<"Internal error", "argument after ** must be a mapping">>)))

\* mcp_http.py:41 and 66-81: the body is an object JsonRpcRequest rejects (no
\* method, a method that is not a string, params that is not an object).
PostInvalidRequest ==
    Rejected(Reply("invalid_request", 400,
                   EndpointError(INVALID_REQUEST, <<"Invalid Request">>)))

\* mcp_http.py:41-50: the body is a request; the envelope of the handler is
\* the content of the Response.
PostRequest ==
    /\ \/ DispatchInitialize
       \/ DispatchExit
       \/ DispatchToolsList
       \/ DispatchToolsCall
       \/ DispatchResourcesList
       \/ DispatchPromptsList
       \/ DispatchUnknown
    /\ http_reply' = Reply("request", 200, response')
    /\ UNCHANGED <<server_should_exit, loop, lines_read, lines_written, lines_logged,
                   last_line, last_written>>

HttpServerNext ==
    \/ PostInvalidJson
    \/ PostNotObject
    \/ PostInvalidRequest
    \/ PostRequest

InitHttpServer == HttpServerInit /\ ClientIdle /\ TransportIdle

SpecHttpServer == InitHttpServer /\ [][HttpServerNext]_vars

\* ---------------------------------------------------- claims on the handler

\* The last request was a tools/call naming a registered tool.
CalledRegisteredTool ==
    request.method = "tools/call" /\ FindTool(request.name) # 0

\* C9: tools/call on a registered tool always yields a result envelope: a
\* content payload with isError false when the tool returns, a payload with
\* isError true and an explanation when the tool raises.
C9_ToolsCallYieldsResultPayload ==
    CalledRegisteredTool =>
        /\ response.members = {"result"}
        /\ response.result.kind =
              IF rpc_tools[FindTool(request.name)].run = "returns"
              THEN "content"
              ELSE "content_isError"

\* C10: handle_request never raises; it returns an envelope for every
\* request, and an error envelope has the id of the request.
C10_NeverRaises ==
    /\ ~raised
    /\ request # NoRequest =>
          /\ response # NoResponse
          /\ response.jsonrpc = "2.0"
          /\ response.members \in {{"result"}, {"error"}}
          /\ "error" \in response.members => response.id = request.id

\* A registered tool raised an exception and the request came back as an
\* error envelope with the request's id.
C10_Witness ==
    /\ request.method = "tools/call"
    /\ request.id = "abc"
    /\ invoked # <<>>
    /\ rpc_tools[invoked[1]].run = "raises"
    /\ response.members = {"error"}
    /\ response.code = INTERNAL_ERROR
    /\ response.id = "abc"

\* C11: every envelope handle_request returns, for each method of the
\* dispatch table and for an unknown method, has exactly one of the members
\* "result" and "error", the protocol string "2.0" and the id of the request.
C11_EnvelopeShape ==
    request # NoRequest =>
        /\ response.members \in {{"result"}, {"error"}}
        /\ response.jsonrpc = "2.0"
        /\ response.id = request.id

\* The exit request with a string id came back as a result envelope whose
\* result is null, with that id.
C11_Witness ==
    /\ request.method = "exit"
    /\ request.id = "abc"
    /\ response.members = {"result"}
    /\ response.result.kind = "null"
    /\ response.id = "abc"

\* The page size of tools/list.
PageSize == 10

\* The offset a cursor stands for: 0 when there is no cursor, -1 when the
\* cursor is not the decimal string of a non-negative integer.
CursorOffset(cursor) ==
    CASE cursor = "absent" -> 0
      [] cursor = "0"      -> 0
      [] cursor = "1"      -> 1
      [] OTHER             -> -1

\* The names of the registered tools, in insertion order.
RegisteredNames == [i \in 1..Len(rpc_tools) |-> rpc_tools[i].name]

\* The page of tools that starts at offset: offsets offset..min(N, offset+10)-1.
Page(offset) ==
    LET last == IF Len(RegisteredNames) < offset + PageSize
                THEN Len(RegisteredNames) ELSE offset + PageSize
    IN [i \in 1..(IF last > offset THEN last - offset ELSE 0) |->
            RegisteredNames[offset + i]]

\* C12: tools/list returns the page of at most 10 tools that starts at the
\* cursor's offset (0 without cursor), with nextCursor exactly when tools
\* remain beyond the page, as the decimal string of the next offset.
C12_ToolsListPagination ==
    (request.method = "tools/list" /\ CursorOffset(request.cursor) >= 0) =>
        /\ response.members = {"result"}
        /\ response.result.items = Page(CursorOffset(request.cursor))
        /\ response.result.nextCursor =
              IF Len(RegisteredNames) > CursorOffset(request.cursor) + PageSize
              THEN ToString(CursorOffset(request.cursor) + PageSize)
              ELSE "absent"

\* C13: a tools/list whose cursor is not the decimal string of a non-negative
\* integer yields an error envelope with the invalid-params code and the
\* request's id, never a result, and handle_request does not raise.
C13_InvalidCursorIsInvalidParams ==
    (request.method = "tools/list" /\ request.cursor # "absent"
        /\ CursorOffset(request.cursor) < 0) =>
        /\ ~raised
        /\ response.members = {"error"}
        /\ response.code = -32602
        /\ response.id = request.id

\* ------------------------------------------- McpClient: claims on operations

\* C14: when the response to a tools/call has a result payload marked isError,
\* call_tool raises McpToolExecutionError carrying the server-reported message
\* (the text of the first content item, when it has one) and the complete
\* result payload; the payload is never returned as a successful result.
C14_IsErrorRaisesToolExecutionError ==
    (lastCall.op = "call_tool" /\ lastCall.got \in ErrorPayloads) =>
        /\ lastCall.outcome = "McpToolExecutionError"
        /\ lastCall.payload = lastCall.got
        /\ lastCall.got = "text" => lastCall.message.form = "server_text"

\* C15: when send_request raises McpTransportError or JsonRpcError during
\* call_tool, call_tool raises that same error unchanged: the same kind, the
\* object the transport raised with its own code and message, not McpClientError
\* or McpToolExecutionError, and nothing is returned.
C15_TransportErrorsReraisedUnchanged ==
    (lastCall.op = "call_tool" /\ lastCall.got \in {"McpTransportError", "JsonRpcError"}) =>
        /\ lastCall.outcome = lastCall.got
        /\ lastCall.same
        /\ lastCall.message.form = "as_raised"
        /\ lastCall.payload = "none"

\* A call_tool whose transport raised JsonRpcError ended with that error.
C15_Witness ==
    /\ lastCall.op = "call_tool"
    /\ lastCall.got = "JsonRpcError"
    /\ lastCall.outcome = "JsonRpcError"
    /\ lastCall.same

\* C16: call_tool with a name that is not in the registry raises ValueError,
\* its message names the tool and lists the registered tool names, and no
\* request is sent over any transport; a registered name never gets the error.
C16_UnknownToolIsValueError ==
    lastCall.op = "call_tool" =>
        /\ lastCall.name \notin DOMAIN tool_to_transport_map =>
             /\ lastCall.outcome = "ValueError"
             /\ lastCall.via = {}
             /\ lastCall.got = "none"
             /\ lastCall.message.form = "not_found"
             /\ lastCall.message.tool = lastCall.name
             /\ lastCall.message.tools = DOMAIN tool_to_transport_map
        /\ lastCall.outcome = "ValueError" =>
             lastCall.name \notin DOMAIN tool_to_transport_map

\* An unregistered name was called on a client with two registered tools.
C16_Witness ==
    /\ lastCall.op = "call_tool"
    /\ lastCall.name = "zz"
    /\ lastCall.outcome = "ValueError"
    /\ lastCall.message.tools = {"a", "shared"}

\* C17: McpClient([]) raises ValueError before any transport is initialized or
\* any request is sent, and no client results: nothing is registered and no
\* operation ever runs on it.
C17_EmptyTransportListIsValueError ==
    /\ transports = 0 =>
         /\ phase \in {"new", "ValueError"}
         /\ \A t \in Transports : initCalls[t] = 0 /\ listSends[t] = 0
         /\ tool_to_transport_map = <<>> /\ tool_schemas = <<>>
         /\ lastCall = NoCall
    /\ phase = "ValueError" => transports = 0

\* The constructor was given the empty list and has raised.
C17_Witness == transports = 0 /\ phase = "ValueError"

\* The names in the list list_tools() returns.
ListedNames == { list_tools[i].name : i \in DOMAIN list_tools }

\* The names advertised by the transports whose discovery succeeded.
AdvertisedNames == { n \in ToolNames : \E t \in 1..transports : Advertises(t, n) }

\* Transports advertising {x, shared} and {y, shared}, as discovery collects
\* and registers them.
Named(t, i, n) ==
    Descriptor(t, i, [isDict |-> TRUE, hasName |-> TRUE, isStr |-> TRUE, name |-> n])
ExampleDiscovered ==
    Appended(<<Named(1, 1, "x"), Named(1, 2, "shared")>>, 1)
        \o Appended(<<Named(2, 1, "y"), Named(2, 2, "shared")>>, 2)
ExampleTools == Values(RegisterFrom(ExampleDiscovered, 1, {}, <<>>, <<>>).schemas)

\* C18: after construction the names list_tools returns are the union, over
\* the transports whose initialize and tools/list both succeeded, of the names
\* of their well-formed descriptors, each name once; transports advertising
\* {x, shared} and {y, shared} give exactly 3 entries.
C18_ListToolsIsUnion ==
    /\ phase = "ready" =>
         /\ ListedNames = AdvertisedNames
         /\ Len(list_tools) = Cardinality(AdvertisedNames)
    /\ Len(ExampleTools) = 3
    /\ { ExampleTools[i].name : i \in DOMAIN ExampleTools } = {"x", "y", "shared"}

\* list_tools was called on a client whose two transports both advertised
\* "shared": the list has one entry.
C18_Witness ==
    /\ phase = "ready"
    /\ lastCall.op = "list_tools"
    /\ Advertises(1, "shared") /\ Advertises(2, "shared")
    /\ Len(list_tools) = 1

\* C19: in every state of the client the keys of the name-to-transport map are
\* the keys of the name-to-descriptor map, and every transport in the map is
\* one of the transports the client was constructed with.
C19_RegistryConsistency ==
    /\ DOMAIN tool_to_transport_map = DOMAIN tool_schemas
    /\ \A n \in DOMAIN tool_to_transport_map :
         tool_to_transport_map[n] \in 1..transports

\* Two names are registered, one for each of two transports.
C19_Witness ==
    /\ phase = "ready"
    /\ DOMAIN tool_to_transport_map = {"a", "shared"}
    /\ { tool_to_transport_map[n] : n \in DOMAIN tool_to_transport_map } = {1, 2}

\* C20: once the constructor has returned, no operation (list_tools,
\* get_tool_schema, call_tool, client.tools access, shutdown) changes either
\* registry map, and none sends a tools/list request.
C20_RegistryFrozen ==
    [][phase = "ready" =>
         /\ tool_to_transport_map' = tool_to_transport_map
         /\ tool_schemas' = tool_schemas
         /\ listSends' = listSends]_vars

\* After a shutdown, a call_tool of a registered name was still routed by the
\* registry.
C20_Witness ==
    /\ phase = "ready"
    /\ 1 \in shutdownCalls
    /\ lastCall.op = "call_tool"
    /\ lastCall.via = {1}
    /\ DOMAIN tool_schemas = {"a", "shared"}

\* C21: McpClient.shutdown calls shutdown() exactly once on every transport of
\* the list, in list order, whatever happened to the transport during
\* discovery and whichever of the calls raise; shutdown itself returns.
\* Leaving the context manager does the same.
C21_ShutdownReachesEveryTransport ==
    lastCall.op \in {"shutdown", "__exit__"} =>
        /\ lastCall.calls = [k \in 1..transports |-> k]
        /\ lastCall.outcome = "returned"
        /\ 1..transports \subseteq shutdownCalls

\* A shutdown on a client of two transports, the first of which failed during
\* discovery and raised from its shutdown(): the second was still shut down.
C21_Witness ==
    /\ lastCall.op = "shutdown"
    /\ transports = 2
    /\ discovery[1] \in FailedDiscovery
    /\ 1 \in lastCall.raised
    /\ lastCall.calls = <<1, 2>>
    /\ lastCall.outcome = "returned"

\* --------------------------------------------- claims on the transport lifecycle

\* What a shutdown() can touch: the lifecycle state, the HTTP client, the
\* child processes, the pipes and the identifier counter.
Released == <<lifecycle, http_client, process, spawned, alive, returncode, stdin_closed,
              stdout_closed, stderr_closed, pipe_in, pipe_out, answered,
              request_id_counter, generated>>

\* C22: a shutdown() called on a transport that holds nothing (never
\* initialized, or already shut down) does nothing: it starts or signals no
\* process, writes no exit request, draws no identifier, raises nothing and
\* leaves the transport in the state it was in.
C22_ShutdownIsIdempotent ==
    [][/\ (adm.pc = "idle" /\ adm'.pc # "idle" /\ ~http_client /\ process = 0) =>
             (adm'.pc = "noop" /\ UNCHANGED Released)
       /\ adm.pc = "noop" => adm'.pc \in {"noop", "idle"}
       /\ (adm.pc = "noop" /\ adm'.pc = "idle") => UNCHANGED Released]_vars

\* A second shutdown() on a pipe transport that was initialized and shut down.
C22_Witness ==
    /\ variant = "stdio"
    /\ spawned = 1
    /\ lifecycle = "ShutDown"
    /\ adm.pc = "noop"

\* C23: a transport moves only Uninitialized -> Initialized -> ShutDown, and
\* ShutDown is terminal: after a completed shutdown no call gives the instance
\* an HTTP client or a child process again, which send_request needs to succeed.
C23_ShutDownIsTerminal ==
    [][/\ <<lifecycle, lifecycle'>> \in
            { <<"Uninitialized", "Uninitialized">>, <<"Uninitialized", "Initialized">>,
              <<"Initialized", "Initialized">>, <<"Initialized", "ShutDown">>,
              <<"ShutDown", "ShutDown">> }
       /\ lifecycle = "ShutDown" => (~http_client' /\ process' = 0)]_vars

\* C24: at most one child process started by a StdioTransport instance is
\* alive at any time, and the process id the instance holds never changes once
\* it has been assigned.
C24_OneChildOnePid ==
    [][/\ Cardinality(alive') <= 1
       /\ (process # 0 /\ process' # 0) => process' = process]_vars


\* rpc.py:55-62: the methods of the dispatch table.
methods == {"initialize", "exit", "tools/list", "tools/call", "resources/list",
            "prompts/list"}

\* The request cannot be dispatched: its method is not in the table, or it is
\* a tools/call whose name no registered tool has.
DispatchFailure(req) ==
    \/ req.method \notin methods
    \/ req.method = "tools/call" /\ FindTool(req.name) = 0

\* C26: a request whose method is not in the dispatch table yields an error
\* envelope with code -32601 and the message "Method not found: <method>"; a
\* tools/call whose name matches no registered tool yields an error envelope
\* with code -32601 and a "Tool not found" message; in both cases no tool is
\* invoked and the should-exit flag is unchanged.
C26_DispatchFailuresAreMethodNotFound ==
    [][(request' # NoRequest /\ DispatchFailure(request')) =>
          /\ response'.members = {"error"}
          /\ response'.code = -32601
          /\ response'.message =
                IF request'.method \notin methods
                THEN <<"Method not found", request'.method>>
                ELSE <<"Tool not found", request'.name>>
          /\ invoked' = <<>>
          /\ should_exit' = should_exit
          /\ rpc_tools' = rpc_tools]_vars

\* After an exit request, a tools/call of a name no registered tool has, on a
\* handler with two tools: the flag is still set, no tool ran, and the
\* envelope carries -32601 and "Tool not found".
C26_Witness ==
    /\ Len(rpc_tools) = 2
    /\ request.method = "tools/call"
    /\ request.name = "zz"
    /\ request.id = "1"
    /\ should_exit
    /\ invoked = <<>>
    /\ response.members = {"error"}
    /\ response.id = "1"
    /\ response.code = METHOD_NOT_FOUND
    /\ response.message = <<"Tool not found", "zz">>

\* C27: resources/list and prompts/list return a result with an empty
\* collection ("resources" / "prompts") and the result has no nextCursor
\* member, whatever the parameters and the registered tools.
C27_EmptyListsWithoutCursor ==
    request.method \in {"resources/list", "prompts/list"} =>
        /\ response.members = {"result"}
        /\ response.result.kind =
              IF request.method = "resources/list" THEN "resources" ELSE "prompts"
        /\ response.result.items = <<>>
        /\ response.result.nextCursor = "absent"

ExitServed ==
    \/ last_line = "jsonrpc" /\ request.method = "exit"
    \/ last_line = "command_exit"

\* C25: the exit method sets the flag of the handler and returns a null
\* result with the id of the request; the run loop writes the response to an
\* exit request (JSON-RPC or legacy) and ends without reading or writing
\* anything more; at the end of standard input it ends without writing.
C25_ExitEndsTheLoop ==
    [][/\ request'.method = "exit" =>
             /\ should_exit'
             /\ response' = create_result_response(request'.id,
                                                   [NoResult EXCEPT !.kind = "null"])
       /\ (ExitServed' /\ lines_read' # lines_read) =>
             /\ lines_written' = lines_written + 1
             /\ last_written' = IF last_line' = "jsonrpc" THEN "envelope"
                                 ELSE "status_success: Server exiting"
       /\ ExitServed' => loop' = "ended"
       /\ (last_line' = "eof" /\ loop = "running") =>
             /\ loop' = "ended"
             /\ UNCHANGED <<lines_read, lines_written, last_written>>
       /\ loop = "ended" => UNCHANGED <<lines_read, lines_written, last_written, loop>>
      ]_vars

\* The second line the server read was a JSON-RPC exit request with a string
\* id: two lines are written and the loop has ended.
C25_Witness ==
    /\ last_line = "jsonrpc"
    /\ request.method = "exit"
    /\ request.id = "abc"
    /\ response.id = "abc"
    /\ lines_read = 2
    /\ lines_written = 2
    /\ last_written = "envelope"
    /\ server_should_exit
    /\ loop = "ended"


\* C28: a body that is not valid JSON gives status 400 with a parse-error
\* (-32700) envelope and id null; a JSON body that fails request validation
\* gives 400 with an invalid-request (-32600) envelope; an uncaught failure
\* while handling gives 500 with an internal-error (-32603) envelope; every
\* request the handler processes gives 200 with the envelope of the handler;
\* every outcome is one of these four.
C28_HttpStatusMapping ==
    http_reply # NoReply =>
        /\ http_reply.body = "invalid_json" =>
              /\ http_reply.status = 400
              /\ http_reply.envelope.members = {"error"}
              /\ http_reply.envelope.code = PARSE_ERROR
              /\ http_reply.envelope.id = "null"
        /\ http_reply.body \in {"not_object", "invalid_request"} =>
              /\ http_reply.status = 400
              /\ http_reply.envelope.members = {"error"}
              /\ http_reply.envelope.code = INVALID_REQUEST
        /\ http_reply.body = "request" =>
              /\ http_reply.status = 200
              /\ http_reply.envelope = response
              /\ response.id = request.id
        /\ \/ http_reply.status = 200
           \/ http_reply.status = 400 /\ http_reply.envelope.code = PARSE_ERROR
           \/ http_reply.status = 400 /\ http_reply.envelope.code = INVALID_REQUEST
           \/ http_reply.status = 500 /\ http_reply.envelope.code = INTERNAL_ERROR

\* ------------------------------------------------- claims on termination

\* The streams of the child that shutdown() and terminate_process() close last.
OutputCloses == {"stdout_closed", "stderr_closed"}

\* What the operation under way did so far is in the order of the text:
\* the signal after stdin was closed (the transport wrote its exit request
\* just before), the wait's timeout after the signal, the kill right after the
\* timeout, the output streams after everything else.
TeardownInOrder ==
    \A i \in 1..Len(teardown) :
       /\ teardown[i] = "terminate" =>
             \E j \in 1..(i - 1) : teardown[j] = "stdin_closed"
       /\ (variant = "stdio" /\ teardown[i] = "stdin_closed") =>
             (i > 1 /\ teardown[i - 1] = "exit_request")
       /\ teardown[i] = "timeout" => (i > 1 /\ teardown[i - 1] = "terminate")
       /\ teardown[i] = "kill" =>
             (i > 2 /\ teardown[i - 1] = "timeout" /\ teardown[i - 2] = "terminate")
       /\ teardown[i] \in OutputCloses =>
             \A j \in (i + 1)..Len(teardown) : teardown[j] \in OutputCloses

\* The step sends the termination signal.
SendsSignal == teardown' = Append(teardown, "terminate")

\* The step is the return of shutdown() or terminate_process().
TerminationReturns == adm.pc # "idle" /\ adm'.pc = "idle"

Terminating == adm.pc \notin {"idle", "noop", "closed"}

\* The operation has returned: no process reference is held and the child it
\* was called on (the last one started) does not run.
Terminated == adm.pc = "idle" /\ process = 0 /\ spawned \notin alive

\* C38: shutdown() and terminate_process() on a held child always return, with
\* the child ended and no process reference held, also when the child ignores
\* the exit request and the termination signal and has to be killed.
C38_ShutdownTerminates == Terminating ~> Terminated

\* terminate_process() killed a child that ignored the closing of its stdin
\* and the termination signal.
C38_Witness ==
    /\ variant = "gateway"
    /\ adm.pc = "release"
    /\ teardown = <<"stdin_closed", "terminate", "timeout", "kill", "stdout_closed",
                    "stderr_closed">>
    /\ process \notin alive

\* -------------------------------------------------- claims on the discovery

\* The discovery loop is done with transport t.
Handled(t) ==
    /\ discovery[t] # "pending"
    /\ initCalls[t] = 1
    /\ listSends[t] = (IF discovery[t] = "init_failed" THEN 0 ELSE 1)

\* The discovery loop has not reached transport t.
Untouched(t) == discovery[t] = "pending" /\ initCalls[t] = 0 /\ listSends[t] = 0

\* The discovery loop is at transport t: before its initialize(), or between
\* its initialize() and its tools/list.
InHand(t) ==
    /\ discovery[t] = "pending"
    /\ initCalls[t] = (IF step = "init" THEN 0 ELSE 1)
    /\ listSends[t] = 0

\* C32: discovery handles the transports one at a time in list order: each gets
\* initialize() first, then exactly one tools/list if initialize() returned and
\* none if it raised, all of it before the next transport is touched; no
\* tools/call is sent during construction.
C32_DiscoveryIsSequential ==
    /\ \A t \in 1..transports : callSends[t] = 0
    /\ phase = "discover" =>
          \A t \in 1..transports :
             /\ t < idx => Handled(t)
             /\ t = idx => InHand(t)
             /\ t > idx => Untouched(t)
    /\ phase \in {"register", "ready"} => \A t \in 1..transports : Handled(t)

\* The constructor returned: the first transport's initialize() raised and it
\* got no request, the second got its one tools/list.
C32_Witness ==
    /\ phase = "ready"
    /\ transports = 2
    /\ discovery[1] = "init_failed" /\ listSends[1] = 0
    /\ discovery[2] = "ok" /\ listSends[2] = 1

\* ---------------------------------------- claims on the pipe transport's calls

\* C33: on the pipe transport a response whose id differs from the request's
\* and which has no "error" member is returned to the caller as it was read, and
\* nothing is raised.
C33_IdMismatchIsReturned ==
    lastSend.line = "mismatch" =>
       /\ lastSend.outcome = "returned"
       /\ lastSend.exc = "none"
       /\ lastSend.response = lastSend.line

\* A send_request that wrote its request has read a response with another id.
C33_Witness ==
    /\ lastSend.line = "mismatch"
    /\ lastSend.wrote = 1
    /\ lastSend.ready

\* ------------------------------------- claims on the client over a transport

ShutdownReturned == shutdownCalls # {} /\ ~Stopping

\* C40: after McpClient.shutdown() has returned, call_tool of a registered name
\* is still routed to its transport, which stays shut down (no initialize, no
\* new child); its send_request is refused at once, without a write and without
\* waiting for the lock or for a line, and call_tool raises McpTransportError
\* and returns no result.
C40_CallAfterShutdownIsRefused ==
    ShutdownReturned =>
       /\ ~HasProcess /\ ~HasClient /\ alive = {} /\ lifecycle = "ShutDown"
       /\ spawned = (IF variant = "stdio" THEN 1 ELSE 0)
       /\ tool_to_transport_map =
             RegisterFrom(Appended(advertised[1], 1), 1, {}, <<>>, <<>>).map
       /\ Sending =>
             /\ lastCall.via = {1}
             /\ thr[Caller].pc = "idle"
             /\ SendOutcome \in {"none", "McpTransportError"}
             /\ lastSend.wrote = 0 /\ httpCall.posts = 0
       /\ (lastCall.op = "call_tool" /\ lastCall.via # {} /\ ~Sending) =>
             /\ lastCall.outcome = "McpTransportError"
             /\ lastCall.got = "McpTransportError"
             /\ lastCall.payload = "none"

\* After a shutdown() that returned, call_tool of a registered name on the
\* pipe transport has raised McpTransportError.
C40_Witness ==
    /\ ShutdownReturned
    /\ variant = "stdio"
    /\ lastCall.op = "call_tool"
    /\ lastCall.name \in DOMAIN tool_to_transport_map
    /\ lastCall.outcome = "McpTransportError"

\* ------------------------------------ claims on concurrent use of the pipe

\* C35: with shutdown() running concurrently on the same StdioTransport, a
\* send_request returns a decoded response or raises McpTransportError or
\* JsonRpcError, and never ends with another kind of error.
C35_ConcurrentShutdownIsContained ==
    lastSend.outcome \in {"none", "returned", "McpTransportError", "JsonRpcError"}

\* The statements of send_request inside "with self._lock".
LockedSection == {"assign", "incr", "log", "write", "read"}

\* C37: the lock of the pipe transport is released on every exit from
\* send_request, by return or by any error: it is held only by a thread that
\* is inside the locked section, so after a send_request that failed a later
\* one is never left waiting for a lock nobody will release.
C37_LockReleasedOnEveryExit ==
    /\ lock # 0 => thr[lock].pc \in LockedSection
    /\ \A t \in SendThreads : thr[t].pc \in LockedSection => lock = t
    /\ (lastSend # NoSend /\ \A t \in SendThreads : thr[t].pc \notin LockedSection) =>
          lock = 0

\* A send_request that had written its request failed (end of stream, or a
\* line it could not use); the lock is free and another thread is about to
\* take it.
C37_Witness ==
    /\ lastSend.wrote = 1
    /\ lastSend.exc \in {"EndOfStream", "JSONDecodeError", "JsonRpcError"}
    /\ lock = 0
    /\ \E t \in SendThreads : thr[t].pc = "acquire"

\* Thread t reads a line from the child's stdout in this step.
ReadsLine(t) == thr[t].pc = "read" /\ thr'[t].pc = "idle" /\ pipe_out' = pipe_out - 1

\* C36: with several threads calling send_request on one pipe transport whose
\* child answers every request line with one response line, in order, the line
\* a caller reads is the answer to the request that caller wrote, never the
\* answer to another caller's request.
C36_ResponsesReachTheirCallers ==
    [][\A t \in SendThreads :
          ReadsLine(t) => (Head(answered).by = t /\ Head(answered).id = thr[t].id)]_vars

\* The answer to one thread's request is in the pipe, that thread is about to
\* read it, and another thread waits for the lock.
C36_Witness ==
    \E t1, t2 \in SendThreads :
       /\ t1 # t2
       /\ thr[t1].pc = "read"
       /\ answered = <<[id |-> thr[t1].id, method |-> "request", by |-> t1]>>
       /\ thr[t2].pc = "acquire"

\* The kinds of line run() can read, end of stream aside.
LineKinds == {"invalid_json", "error_member", "not_object", "jsonrpc", "jsonrpc_invalid",
              "command", "command_exit"}

\* The step is an iteration of the loop that read a line.
ReadsOneLine == lines_read' = lines_read + 1

\* C39: the run loop writes exactly one line on standard output for every
\* line it reads, before it reads the next one, and nothing else: whatever
\* the kind of the line (a JSON-RPC request, one that makes the tool fail
\* included, a legacy command, invalid JSON, JSON that is not an object),
\* standard output holds as many lines as were read; an iteration that met
\* the end of the stream, and the start of run(), write nothing there; the
\* one status message of run() is on standard error.
C39_OneLineOutPerLineIn ==
    /\ [](/\ lines_written = lines_read
          /\ lines_logged = (IF loop = "new" THEN 0 ELSE 1)
          /\ last_line \in LineKinds => last_written # "none")
    /\ [][/\ ReadsOneLine =>
               /\ last_line' \in LineKinds
               /\ lines_written' = lines_written + 1
               /\ lines_logged' = lines_logged
          /\ ~ReadsOneLine =>
               /\ lines_read' = lines_read
               /\ lines_written' = lines_written
               /\ last_written' = last_written
          /\ last_line' = "eof" => ~ReadsOneLine
          /\ lines_logged' # lines_logged => (loop = "new" /\ ~ReadsOneLine)
         ]_vars

\* Two lines were read and two written: the first was a tools/call whose
\* tool raised, answered by an internal-error envelope; the second was JSON
\* that is not an object, answered by the "Server error" status line.
C39_Witness ==
    /\ lines_read = 2
    /\ lines_written = 2
    /\ lines_logged = 1
    /\ request.method = "tools/call"
    /\ response.code = INTERNAL_ERROR
    /\ invoked # <<>>
    /\ last_line = "not_object"
    /\ last_written = "status_error: Server error"
    /\ loop = "running"
====
